---- MODULE Spec2Model ----
(***************************************************************************)
(* Tradetron wallet automation (TTGopiWallet / TTRamkiWallet).             *)
(*                                                                         *)
(* One run of api_automation_TT*Wallet.py: the configuration check,        *)
(* load_session with its validation probe, the Stop/Start toggle loop of   *)
(* main driving toggle_strategy (retry with linear backoff), the closing   *)
(* Paused command, the failure report or the wallet summary, and the       *)
(* process exit.  The remote service and the environment are inputs:       *)
(* every request draws its outcome from a small set.                       *)
(***************************************************************************)
EXTENDS Integers, Sequences, FiniteSets, TLC

VARIABLES
    variant,        \* which wallet script runs: "Gopi" or "Ramki"
    pc,             \* position of main
    exit_code,      \* process exit code, meaningful once pc = "done"
    cookie_file,    \* COOKIES_FILE on disk: "absent", "good" or "bad" pickle
    session,        \* result of load_session: "None" or "Session"
    probe,          \* outcome of the validation probe GET (ghost)
    NUM_TOGGLES,    \* cycle count read from the environment
    i,              \* loop variable of main's for loop (0-based)
    had_failure,    \* main's had_failure
    error_details,  \* main's error_details
    response,       \* main's response (last value returned by toggle_strategy)
    ts,             \* toggle_strategy frame: "idle", "loop" or "ret"
    status,         \* toggle_strategy's status argument
    attempt,        \* toggle_strategy's attempt
    last_response,  \* toggle_strategy's last_response
    posts,          \* outcomes of the POSTs of the current call (ghost)
    sleeps,         \* backoff sleeps of the current call, in seconds (ghost)
    calls,          \* every toggle_strategy call: its status, its call site (ghost)
    fail_at,        \* Len(calls) when the first step failed, 0 if none (ghost)
    completed,      \* cycles whose Stop and Start both passed (ghost)
    issued,         \* last command POSTed to the remote service (ghost)
    acked,          \* last command answered with status 200 (ghost)
    delays,         \* number of inter-command time.sleep(DELAY_SECONDS) (ghost)
    sent,           \* messages handed to send_telegram_message (ghost)
    running_count,  \* main's running_count: "unset", "None" or "int"
    lookups,        \* number of fetch_wallet_running_count calls (ghost)
    escaped,        \* an exception left main() (ghost)
    notify,         \* the latest send_telegram_message call: what its HTTP
                    \* call met and what it returned (ghost)
    \* find_status
    strategy_id,    \* the strategy_id argument of the status functions
    fs_doc,         \* the decoded JSON document find_status is applied to
    fs_order,       \* iteration order of the status_keys set
    fs_result,      \* what find_status returned
    fs_done,        \* find_status has returned
    \* StatusHTMLParser
    in_target,
    target_depth,
    awaiting_status_span,
    capture_status,
    parser_status,  \* self.status of the parser
    events,         \* the handler calls made so far (ghost)
    \* fetch_current_status
    fcs_pc,         \* "off", "probe", "after" the loop, "returned", "raised"
    fcs_probe,      \* index of the next entry of probes
    fcs_data,       \* data
    fcs_response,   \* response: the request whose answer it holds, or "None"
    fcs_label,      \* the label returned
    fcs_requests,   \* requests sent, in order (ghost)
    fcs_outcomes,   \* what each probe request produced (ghost)
    \* one invocation of the script after another, on one machine
    inv_variant,    \* which wallet script is invoked
    inv_no,         \* number of the invocation
    inv_pc,         \* "off", "load", "raised", "run", "exited"
    inv_blob,       \* the auth blob in the environment of this invocation
    inv_file,       \* COOKIES_FILE on disk
    inv_file_from,  \* the invocation whose blob the file holds, 0 if none (ghost)
    inv_session,    \* what load_session produced: "None", "Session", "raise"
    inv_source,     \* the invocation whose blob the session's cookies are
                    \* from, 0 if there is no session (ghost)
    inv_probe,      \* outcome of the validation probe, "unsent" if not sent
    inv_toggled,    \* toggle commands were sent (ghost)
    inv_exit,       \* exit code of the invocation, once exited
    \* the cookie blob from the login script to load_session
    codec_pc,       \* "off", "cookies", "pickled", "encoded", "restored",
                    \* "loaded", "raised"
    cookies_list,   \* cookies_list of login_and_save_cookies
    pickled,        \* the bytes of COOKIES_FILE written by the login script
    cookies_b64,    \* the base64 text handed over as TT_COOKIES_B64_*
    cookies_bytes,  \* what base64.b64decode(encoded) gives load_session
    unpickler,      \* pickle.loads at work: position, stack, memo
    cookies,        \* the (name, value, domain) load_session installs
    \* the toggle phase of the two scripts, run side by side on one script
    \* of outcomes
    gopi_run,       \* the Gopi script's main, from the toggle loop on
    ramki_run,      \* the Ramki script's main, from the toggle loop on
    \* dual_wallet_monitor
    mon_pc,         \* position of main: "off", "secrets", "gopi", "ramki",
                    \* "format", "notify", "returned", "exited", "raised"
    gopi_check,     \* what check_wallet_cookie("Gopi", ...) returned
    ramki_check,    \* what check_wallet_cookie("Ramki", ...) returned
    mon_checked,    \* the wallets checked, in order (ghost)
    mon_sent,       \* number of send_telegram_message calls (ghost)
    mon_ret         \* what main returned, or the exit code of sys.exit

runVars == <<variant, pc, exit_code, cookie_file, session, probe, NUM_TOGGLES, i,
          had_failure, error_details, response, ts, status, attempt,
          last_response, posts, sleeps, calls, fail_at, completed,
          issued, acked, delays, sent, running_count, lookups, escaped,
          notify>>

findVars == <<strategy_id, fs_doc, fs_order, fs_result, fs_done>>
parserVars == <<in_target, target_depth, awaiting_status_span,
                capture_status, parser_status, events>>
fcsVars == <<fcs_pc, fcs_probe, fcs_data, fcs_response, fcs_label,
             fcs_requests, fcs_outcomes>>
invVars == <<inv_variant, inv_no, inv_pc, inv_blob, inv_file, inv_file_from,
             inv_session, inv_source, inv_probe, inv_toggled, inv_exit>>
codecVars == <<codec_pc, cookies_list, pickled, cookies_b64, cookies_bytes,
               unpickler, cookies>>
pairVars == <<gopi_run, ramki_run>>
monVars == <<mon_pc, gopi_check, ramki_check, mon_checked, mon_sent, mon_ret>>
otherVars == <<findVars, parserVars, fcsVars, invVars, codecVars, pairVars,
               monVars>>

vars == <<runVars, otherVars>>

envVars == <<variant, NUM_TOGGLES>>
mainVars == <<i, had_failure, error_details, response>>
tsVars == <<ts, status, attempt, last_response>>
ghostCall == <<posts, sleeps>>
ghostRun == <<calls, fail_at, completed, issued, acked, delays>>

(***************************************************************************)
(* Bounds and program constants                                            *)
(***************************************************************************)
MaxCycles == 3          \* NUM_TOGGLES ranges over 0..MaxCycles

retries == 3            \* toggle_strategy(..., retries=3, ...)
backoff_seconds == 3    \* toggle_strategy(..., backoff_seconds=3)

(***************************************************************************)
(* HTTP responses.  None is Python's None; a Response carries its status   *)
(* code and whether response.json() decodes.                               *)
(***************************************************************************)
None == [none |-> TRUE, status_code |-> 0, json |-> FALSE]
Resp(s, j) == [none |-> FALSE, status_code |-> s, json |-> j]

\* outcome of one session.post: a transport exception, or a response
Raised == [exc |-> TRUE, status_code |-> 0, json |-> FALSE]
Answered(s, j) == [exc |-> FALSE, status_code |-> s, json |-> j]

\* what one POST to /api/deployed/status can end in
Outcomes ==
    {Raised, Answered(200, TRUE), Answered(200, FALSE), Answered(302, FALSE),
     Answered(404, FALSE), Answered(500, FALSE), Answered(503, FALSE)}

ResponseOf(o) == IF o.exc THEN None ELSE Resp(o.status_code, o.json)

\* requests.Response.__bool__ is Response.ok: a status below 400
Truthy(r) == ~r.none /\ r.status_code < 400

(***************************************************************************)
(* send_telegram_message: the model records each invocation.               *)
(***************************************************************************)
Msg(kind, details, count) == [kind |-> kind, details |-> details, count |-> count]

send_telegram_message(log, message) == Append(log, message)

\* what a send_telegram_message call can meet: no credentials in the
\* environment, requests.post raising, a non-200 answer, a 200 answer
NotifyOutcomes == {"nocreds", "exc", "non200", "200"}

TelegramReturn_Propagates(o) ==
    IF o = "200" THEN "True" ELSE IF o = "exc" THEN "raise" ELSE "False"

\* the value send_telegram_message returns
TelegramReturn(o) == IF o = "200" THEN "True" ELSE "False"

NoNotify == [outcome |-> "unsent", ret |-> "unsent"]

\* the send_telegram_message calls of a step: each returns, and no caller
\* looks at the value returned
Notified ==
    IF Len(sent') > Len(sent)
    THEN \E o \in NotifyOutcomes :
            notify' = [outcome |-> o, ret |-> TelegramReturn(o)]
    ELSE UNCHANGED notify

(***************************************************************************)
(* toggle_strategy                                                         *)
(***************************************************************************)
IsTerminal_ClientErrorsRetried(r) == r.status_code < 400

\* `if response.status_code < 500: return response`
IsTerminal(r) == r.status_code < 500

BackoffSleep_Constant(n) == backoff_seconds

\* `time.sleep(backoff_seconds * attempt)`
BackoffSleep(n) == backoff_seconds * n

SleepsAfter_OneAttemptShort(n) == n < retries - 1

\* `if attempt < retries:` guards both sleeps
SleepsAfter(n) == n < retries

ReturnAfterRaise_LastResponse(lr) == lr

\* `return None` when the last attempt raised, whatever last_response holds
ReturnAfterRaise(lr) == None

\* main calls toggle_strategy(session, STRATEGY_ID, <command>)
CommandAt(p) == IF p = "start" THEN "Start" ELSE "Paused"

TSCall ==
    /\ pc \in {"stop", "start", "final"}
    /\ ts = "idle"
    /\ ts' = "loop"
    /\ status' = CommandAt(pc)
    /\ attempt' = 1
    /\ last_response' = None
    /\ posts' = <<>>
    /\ sleeps' = <<>>
    /\ calls' = Append(calls, [status |-> CommandAt(pc), site |-> pc])
    /\ UNCHANGED <<otherVars, envVars, mainVars, pc, exit_code, cookie_file, session,
                   probe, fail_at, completed, issued, acked, delays, sent,
                   running_count, lookups, escaped>>
    /\ Notified

\* one iteration of `for attempt in range(1, retries + 1)`
TSPost ==
    /\ ts = "loop"
    /\ \E o \in Outcomes :
        LET r == ResponseOf(o)
            lr == IF o.exc THEN last_response ELSE r
            returns == IF r.none THEN ~SleepsAfter(attempt)
                       ELSE IsTerminal(r) \/ attempt >= retries
            value == IF r.none THEN ReturnAfterRaise(last_response)
                     ELSE IF IsTerminal(r) THEN r ELSE lr
            slept == IF r.none THEN SleepsAfter(attempt)
                     ELSE ~IsTerminal(r) /\ SleepsAfter(attempt)
        IN  /\ posts' = Append(posts, o)
            /\ issued' = status
            /\ acked' = IF ~o.exc /\ o.status_code = 200 THEN status ELSE acked
            /\ last_response' = lr
            /\ sleeps' = IF slept THEN Append(sleeps, BackoffSleep(attempt))
                         ELSE sleeps
            /\ IF returns
               THEN /\ ts' = "ret"
                    /\ response' = value
                    /\ attempt' = attempt
               ELSE /\ ts' = "loop"
                    /\ response' = response
                    /\ attempt' = attempt + 1
    /\ UNCHANGED <<otherVars, envVars, pc, exit_code, cookie_file, session, probe, i,
                   had_failure, error_details, status, calls, fail_at,
                   completed, delays, sent, running_count, lookups, escaped>>
    /\ Notified

(***************************************************************************)
(* main: configuration                                                     *)
(***************************************************************************)
\* what the environment holds for NUM_TOGGLES_<wallet> / NUM_TOGGLES
NumToggleInputs == {"missing", "notint", "int"}

\* required secret missing (GitHub run) or NUM_TOGGLES missing: report, exit 1
ConfigMissing ==
    /\ pc = "config"
    /\ \E github \in BOOLEAN, secrets \in BOOLEAN, num \in NumToggleInputs :
        \/ github /\ ~secrets
        \/ ~github /\ num = "missing"
    /\ sent' = send_telegram_message(sent, Msg("config missing", <<>>, ""))
    /\ pc' = "done"
    /\ exit_code' = 1
    /\ UNCHANGED <<otherVars, envVars, mainVars, tsVars, ghostCall, ghostRun, cookie_file,
                   session, probe, running_count, lookups, escaped>>
    /\ Notified

\* int(num_toggles) raises ValueError, which leaves main()
ConfigBadInt ==
    /\ pc = "config"
    /\ pc' = "raised"
    /\ escaped' = TRUE
    /\ UNCHANGED <<otherVars, envVars, mainVars, tsVars, ghostCall, ghostRun, cookie_file,
                   session, probe, running_count, lookups, exit_code, sent>>
    /\ Notified

ConfigOk ==
    /\ pc = "config"
    /\ \E n \in 0..MaxCycles : NUM_TOGGLES' = n
    /\ pc' = "load"
    /\ UNCHANGED <<otherVars, variant, mainVars, tsVars, ghostCall, ghostRun, cookie_file,
                   session, probe, running_count, lookups, exit_code, sent, escaped>>
    /\ Notified

(***************************************************************************)
(* load_session                                                            *)
(***************************************************************************)
\* TT_COOKIES_B64_<wallet>: unset, not base64, base64 of bytes that do not
\* unpickle to a cookie list, or base64 of a pickled cookie list
Blobs == {"missing", "badb64", "badpickle", "good"}

\* what the validation probe GET can end in: an exception or a status
ProbeOutcomes == {"exc", "200", "401", "500"}

ProbeOk_AnyAnswer(p) == p # "exc"

\* `if test.status_code != 200: ... return None`
ProbeOk(p) == p = "200"

\* the bytes base64.b64decode(encoded) yields, as a file content
Decoded(blob) == IF blob = "good" THEN "good" ELSE "bad"

\* load_session of the Gopi script: the cookie file comes first, the
\* environment only when the file does not exist
LoadGopi(file, blob, p) ==
    LET restored == IF file # "absent" THEN file
                    ELSE IF blob \in {"missing", "badb64"} THEN "absent"
                    ELSE Decoded(blob)
    IN  IF file = "absent" /\ blob = "missing"
        THEN [ret |-> "None", file |-> file, msgs |-> <<>>, probe |-> "unsent"]
        ELSE IF file = "absent" /\ blob = "badb64"
        THEN [ret |-> "None", file |-> file,
              msgs |-> <<Msg("decode failed", <<>>, "")>>, probe |-> "unsent"]
        ELSE IF restored = "bad"
        THEN [ret |-> "raise", file |-> restored, msgs |-> <<>>,
              probe |-> "unsent"]
        ELSE IF ProbeOk(p)
        THEN [ret |-> "Session", file |-> restored, msgs |-> <<>>, probe |-> p]
        ELSE [ret |-> "None", file |-> restored,
              msgs |-> <<Msg("validation failed", <<>>, "")>>, probe |-> p]

\* load_session of the Ramki script: always from the environment, no file
LoadRamki(file, blob, p) ==
    IF blob = "missing"
    THEN [ret |-> "None", file |-> file, msgs |-> <<>>, probe |-> "unsent"]
    ELSE IF blob = "badb64"
    THEN [ret |-> "None", file |-> file,
          msgs |-> <<Msg("decode failed", <<>>, "")>>, probe |-> "unsent"]
    ELSE IF Decoded(blob) = "bad"
    THEN [ret |-> "raise", file |-> file, msgs |-> <<>>, probe |-> "unsent"]
    ELSE IF ProbeOk(p)
    THEN [ret |-> "Session", file |-> file, msgs |-> <<>>, probe |-> p]
    ELSE [ret |-> "None", file |-> file,
          msgs |-> <<Msg("validation failed", <<>>, "")>>, probe |-> p]

load_session(v, file, blob, p) ==
    IF v = "Gopi" THEN LoadGopi(file, blob, p) ELSE LoadRamki(file, blob, p)

AfterLoad_LoopBodyFirst(ret, n) ==
    IF ret = "raise" THEN "raised" ELSE IF ret = "None" THEN "done" ELSE "stop"

AfterLoad_Unchecked(ret, n) ==
    IF ret = "raise" THEN "raised" ELSE IF n > 0 THEN "stop" ELSE "final"

\* where main goes with what load_session returned
\* (`if not session: sys.exit(1)`, then the for loop over range(NUM_TOGGLES))
AfterLoad(ret, n) ==
    IF ret = "raise" THEN "raised"
    ELSE IF ret = "None" THEN "done"
    ELSE IF n > 0 THEN "stop" ELSE "final"

\* `session = load_session()` and the check that follows it
LoadSession ==
    /\ pc = "load"
    /\ \E blob \in Blobs, p \in ProbeOutcomes :
        LET res == load_session(variant, cookie_file, blob, p)
        IN  /\ cookie_file' = res.file
            /\ sent' = sent \o res.msgs
            /\ probe' = res.probe
            /\ session' = IF res.ret = "Session" THEN "Session" ELSE "None"
            /\ escaped' = (res.ret = "raise")
            /\ pc' = AfterLoad(res.ret, NUM_TOGGLES)
            /\ exit_code' = IF res.ret = "None" THEN 1 ELSE exit_code
    /\ UNCHANGED <<otherVars, envVars, mainVars, tsVars, ghostCall, ghostRun,
                   running_count, lookups>>
    /\ Notified

(***************************************************************************)
(* main: the toggle loop                                                   *)
(***************************************************************************)
Detail(kind, iter, code) == [kind |-> kind, iter |-> iter, code |-> code]

StepOk_AnyTruthy(r) == Truthy(r)

\* `if response and response.status_code == 200:`
StepOk(r) == Truthy(r) /\ r.status_code = 200

\* `status_code = response.status_code if response else "no response"`
StatusText(r) == IF Truthy(r) THEN ToString(r.status_code) ELSE "no response"

FailureDetails_Unrecorded(kind, iter, r) == <<>>

\* the else branch of a step: error_msg, then the response text if there is
\* a response object
FailureDetails(kind, iter, r) ==
    <<Detail(kind, iter, StatusText(r))>>
    \o (IF ~r.none THEN <<Detail("Response", 0, "")>> ELSE <<>>)

\* the inner `try: response.json() except: error_details.append(...)`
JsonDetails(kind, r) ==
    IF r.json THEN <<>> ELSE <<Detail(kind, 0, "")>>

\* messages of a step: the JSON parse error, or the failure
JsonMsgs(kind, r) == IF r.json THEN <<>> ELSE <<Msg(kind, <<>>, "")>>

\* the toggle_strategy frame is gone once main has taken its result
PopFrame ==
    /\ ts' = "idle"
    /\ status' = ""
    /\ attempt' = 0
    /\ last_response' = None
    /\ posts' = <<>>
    /\ sleeps' = <<>>

AfterFailure_Continue == "stop"

AfterFailure_NoClosing == "summary"

\* where a failed step goes: `break`, then the closing command
AfterFailure == "final"

AfterStart_NoClosing(k, n) == IF k < n - 1 THEN "stop" ELSE "summary"

AfterStart_OneCycle(k, n) == "final"

\* where a passed Start goes: the next iteration, or the closing command
AfterStart(k, n) == IF k < n - 1 THEN "stop" ELSE "final"

DelayAfterStart_Always(k, n) == 1

\* `if i < NUM_TOGGLES - 1: time.sleep(DELAY_SECONDS)`
DelayAfterStart(k, n) == IF k < n - 1 THEN 1 ELSE 0

\* the Stop step of iteration i, after toggle_strategy returned
HandleStop ==
    /\ pc = "stop"
    /\ ts = "ret"
    /\ IF StepOk(response)
       THEN /\ error_details' = error_details
                    \o JsonDetails("STOP command JSON parse error", response)
            /\ sent' = sent \o JsonMsgs("STOP command JSON parse error", response)
            /\ delays' = delays + 1
            /\ pc' = "start"
            /\ UNCHANGED <<had_failure, fail_at>>
       ELSE /\ error_details' = error_details
                    \o FailureDetails("STOP command failed", i + 1, response)
            /\ had_failure' = TRUE
            /\ sent' = send_telegram_message(sent,
                            Msg("STOP command failed", <<>>, ""))
            /\ fail_at' = Len(calls)
            /\ pc' = AfterFailure
            /\ UNCHANGED delays
    /\ PopFrame
    /\ UNCHANGED <<otherVars, envVars, i, response, exit_code, cookie_file, session,
                   probe, calls, completed, issued, acked, running_count, lookups,
                   escaped>>
    /\ Notified

\* `except Exception as e:` of the Stop step
StopExcept ==
    /\ pc = "stop"
    /\ ts = "ret"
    /\ had_failure' = TRUE
    /\ error_details' = Append(error_details,
                               Detail("STOP command exception", i + 1, ""))
    /\ sent' = send_telegram_message(sent,
                    Msg("STOP command exception", <<>>, ""))
    /\ fail_at' = Len(calls)
    /\ pc' = AfterFailure
    /\ PopFrame
    /\ UNCHANGED <<otherVars, envVars, i, response, exit_code, cookie_file, session,
                   probe, calls, completed, issued, acked, delays,
                   running_count, lookups, escaped>>
    /\ Notified

\* the Start step of iteration i, after toggle_strategy returned
HandleStart ==
    /\ pc = "start"
    /\ ts = "ret"
    /\ IF StepOk(response)
       THEN /\ error_details' = error_details
                    \o JsonDetails("START command JSON parse error", response)
            /\ sent' = sent
                    \o JsonMsgs("START command JSON parse error", response)
            /\ delays' = delays + DelayAfterStart(i, NUM_TOGGLES)
            /\ completed' = completed + 1
            /\ pc' = AfterStart(i, NUM_TOGGLES)
            /\ i' = IF i < NUM_TOGGLES - 1 THEN i + 1 ELSE i
            /\ UNCHANGED <<had_failure, fail_at>>
       ELSE /\ error_details' = error_details
                    \o FailureDetails("START command failed", i + 1, response)
            /\ had_failure' = TRUE
            /\ sent' = send_telegram_message(sent,
                            Msg("START command failed", <<>>, ""))
            /\ fail_at' = Len(calls)
            /\ pc' = AfterFailure
            /\ UNCHANGED <<delays, completed, i>>
    /\ PopFrame
    /\ UNCHANGED <<otherVars, envVars, response, exit_code, cookie_file, session, probe,
                   calls, issued, acked, running_count, lookups, escaped>>
    /\ Notified

\* `except Exception as e:` of the Start step
StartExcept ==
    /\ pc = "start"
    /\ ts = "ret"
    /\ had_failure' = TRUE
    /\ error_details' = Append(error_details,
                               Detail("START command exception", i + 1, ""))
    /\ sent' = send_telegram_message(sent,
                    Msg("START command exception", <<>>, ""))
    /\ fail_at' = Len(calls)
    /\ pc' = AfterFailure
    /\ PopFrame
    /\ UNCHANGED <<otherVars, envVars, i, response, exit_code, cookie_file, session,
                   probe, calls, completed, issued, acked, delays,
                   running_count, lookups, escaped>>
    /\ Notified

ClosingFailed_Never(r) == FALSE

\* the else branch of the closing command's
\* `if response and response.status_code == 200:`
ClosingFailed(r) == ~StepOk(r)

\* the closing command, after toggle_strategy returned
HandleFinal ==
    /\ pc = "final"
    /\ ts = "ret"
    /\ IF ~ClosingFailed(response)
       THEN UNCHANGED <<error_details, had_failure>>
       ELSE /\ error_details' = error_details
                    \o FailureDetails("Final STOP command failed", 0, response)
            /\ had_failure' = TRUE
    /\ pc' = "summary"
    /\ PopFrame
    /\ UNCHANGED <<otherVars, envVars, i, response, exit_code, cookie_file, session,
                   probe, ghostRun, sent, running_count, lookups, escaped>>
    /\ Notified

(***************************************************************************)
(* main: the end of the run                                                *)
(***************************************************************************)
SummaryBranch_IgnoresFailure(failed) == "wallet"

\* `if had_failure:` selects the failure report; the wallet summary is
\* reached only past it
SummaryBranch(failed) == IF failed THEN "report" ELSE "wallet"

\* `if had_failure:` the failure report, then sys.exit(1)
FailReport ==
    /\ pc = "summary"
    /\ SummaryBranch(had_failure) = "report"
    /\ sent' = send_telegram_message(sent, Msg("FAILED", error_details, ""))
    /\ pc' = "done"
    /\ exit_code' = 1
    /\ UNCHANGED <<otherVars, envVars, mainVars, tsVars, ghostCall, ghostRun, cookie_file,
                   session, probe, running_count, lookups, escaped>>
    /\ Notified

\* fetch_wallet_running_count: the wallet API, then (Gopi) the dashboard HTML
\* the wallet API GET: exception, non-200, undecodable body, JSON of another
\* shape, no "running" entry, a "running" entry int() rejects, a count
WalletApi ==
    {"exc", "non200", "badjson", "badshape", "norunning", "nonnumeric",
     "running"}
WalletHtml == {"exc", "non200", "nomatch", "match"}

fetch_wallet_running_count_Raises(v, api, html) ==
    IF api = "running" THEN "int"
    ELSE IF api = "exc" THEN "raise"
    ELSE IF v = "Gopi" /\ html = "match" THEN "int"
    ELSE "None"

fetch_wallet_running_count(v, api, html) ==
    IF api = "running" THEN "int"
    ELSE IF v = "Gopi" /\ html = "match" THEN "int"
    ELSE "None"

\* the wallet summary and the success message; main returns
WalletSummary ==
    /\ pc = "summary"
    /\ SummaryBranch(had_failure) = "wallet"
    /\ lookups' = lookups + 1
    /\ \E api \in WalletApi, html \in WalletHtml :
        LET count == fetch_wallet_running_count(variant, api, html)
        IN  IF count = "raise"
            THEN /\ pc' = "raised"
                 /\ escaped' = TRUE
                 /\ UNCHANGED <<running_count, sent, exit_code>>
            ELSE /\ running_count' = count
                 /\ sent' = send_telegram_message(sent,
                                Msg("SUCCESS", <<>>, count))
                 /\ pc' = "done"
                 /\ exit_code' = 0
                 /\ UNCHANGED escaped
    /\ UNCHANGED <<otherVars, envVars, mainVars, tsVars, ghostCall, ghostRun, cookie_file,
                   session, probe>>
    /\ Notified

TopLevelReport_Silent(log) == log

\* the report of the entry point's handler
TopLevelReport(log) ==
    send_telegram_message(log, Msg("CRITICAL ERROR", <<>>, ""))

\* `except Exception as e:` of the entry point: report, sys.exit(1)
TopLevelExcept ==
    /\ pc = "raised"
    /\ sent' = TopLevelReport(sent)
    /\ pc' = "done"
    /\ exit_code' = 1
    /\ UNCHANGED <<otherVars, envVars, mainVars, tsVars, ghostCall, ghostRun, cookie_file,
                   session, probe, running_count, lookups, escaped>>
    /\ Notified

(***************************************************************************)
(* Decoded JSON documents (what response.json() returns).  Every node is   *)
(* a record of the same shape; a mapping keeps its entries in insertion    *)
(* order as the Python dict does, a sequence keeps its items under the     *)
(* empty key.                                                              *)
(***************************************************************************)
KV(key, value) == [k |-> key, v |-> value]

JNull == [t |-> "null", n |-> 0, s |-> "", items |-> <<>>]

JStr(x) == [t |-> "str", n |-> 0, s |-> x, items |-> <<>>]

JNum(x) == [t |-> "num", n |-> x, s |-> "", items |-> <<>>]

JDict(kvs) == [t |-> "dict", n |-> 0, s |-> "", items |-> kvs]

JList(vals) ==
    [t |-> "list", n |-> 0, s |-> "",
     items |-> [j \in 1..Len(vals) |-> KV("", vals[j])]]

\* str(value)
PyStr(v) ==
    CASE v.t = "str" -> v.s
      [] v.t = "num" -> ToString(v.n)
      [] v.t = "null" -> "None"
      [] v.t = "dict" -> IF Len(v.items) = 0 THEN "{}" ELSE "{...}"
      [] v.t = "list" -> IF Len(v.items) = 0 THEN "[]" ELSE "[...]"

\* bool(value): the test of "if data" and "if not data"
DocTruthy(v) ==
    CASE v.t = "str" -> v.s # ""
      [] v.t = "num" -> v.n # 0
      [] v.t = "null" -> FALSE
      [] v.t = "dict" -> Len(v.items) > 0
      [] v.t = "list" -> Len(v.items) > 0

\* key in node
Has(node, key) == \E j \in 1..Len(node.items) : node.items[j].k = key

\* node.get(key), for a key that is in node
Get(node, key) ==
    node.items[CHOOSE j \in 1..Len(node.items) : node.items[j].k = key].v

(***************************************************************************)
(* find_status, the nested function of fetch_current_status.               *)
(***************************************************************************)
id_keys ==
    {"id", "deployment_id", "deployed_id", "strategy_id", "tradetron_id",
     "deployed_strategy_id", "deploy_id", "deploymentId",
     "deployedStrategyId", "strategy_deploy_id"}

status_keys ==
    {"status", "execution_status", "executionStatus",
     "execution_status_name", "state", "live_status", "current_status",
     "status_label", "statusText", "execution"}

inner_keys_LabelFirst == <<"label", "status", "name", "text">>

\* `for inner_key in ("status", "label", "name", "text"):`
inner_keys == <<"status", "label", "name", "text">>

\* status_keys is a set of strings: the order in which "for s_key in
\* status_keys" visits it is not fixed by the language.  Two of the orders
\* an interpreter can produce: the order of the literal and its reverse.
StatusKeyOrders ==
    {<<"status", "execution_status", "executionStatus",
       "execution_status_name", "state", "live_status", "current_status",
       "status_label", "statusText", "execution">>,
     <<"execution", "statusText", "status_label", "current_status",
       "live_status", "state", "execution_status_name", "executionStatus",
       "execution_status", "status">>}

\* some id key is in node and its value's string form is the strategy id's
IdMatches(node, sid) ==
    \E key \in id_keys : Has(node, key) /\ PyStr(Get(node, key)) = PyStr(JNum(sid))

\* the first s_key of the iteration that is in node
FirstStatusKey(node, order) ==
    order[CHOOSE j \in 1..Len(order) :
            /\ Has(node, order[j])
            /\ \A h \in 1..(j - 1) : ~Has(node, order[h])]

\* lines 318-323: what is returned for the value under the status key
StatusValueLabel(value) ==
    IF value.t = "dict" /\ \E j \in 1..Len(inner_keys) : Has(value, inner_keys[j])
    THEN PyStr(Get(value, inner_keys[CHOOSE j \in 1..Len(inner_keys) :
                    /\ Has(value, inner_keys[j])
                    /\ \A h \in 1..(j - 1) : ~Has(value, inner_keys[h])]))
    ELSE PyStr(value)

RECURSIVE find_status(_, _, _)
RECURSIVE FirstResult(_, _, _, _)

\* the loops "for value in node.values()" and "for item in node"
FirstResult(items, j, sid, order) ==
    IF j > Len(items) THEN ""
    ELSE LET result == find_status(items[j].v, sid, order)
         IN  IF result # "" THEN result
             ELSE FirstResult(items, j + 1, sid, order)

find_status(node, sid, order) ==
    IF node.t = "dict"
    THEN IF IdMatches(node, sid) /\ \E s_key \in status_keys : Has(node, s_key)
         THEN StatusValueLabel(Get(node, FirstStatusKey(node, order)))
         ELSE FirstResult(node.items, 1, sid, order)
    ELSE IF node.t = "list"
    THEN FirstResult(node.items, 1, sid, order)
    ELSE ""

\* the strategy ids and the documents find_status is applied to
StrategyIds == {42, 7}

IdValues == {JNum(42), JStr("42"), JStr("7")}

StatusValues ==
    {JStr("Running"), JStr(""), JNull,
     JDict(<<KV("label", JStr("Paused"))>>),
     JDict(<<KV("label", JStr(""))>>),
     JDict(<<KV("label", JStr("Paused")), KV("status", JStr("Active"))>>),
     JDict(<<KV("text", JStr("Idle")), KV("name", JNum(3))>>),
     JDict(<<KV("code", JNum(3))>>)}

Entity(idv, sv) == JDict(<<KV("id", idv), KV("status", sv)>>)

Entities == {Entity(idv, sv) : idv \in IdValues, sv \in StatusValues}

Documents ==
    Entities
    \cup {JDict(<<KV("data", JDict(<<KV("list", JList(<<e>>))>>))>>) :
            e \in Entities}
    \cup {JList(<<e1, e2>>) : e1 \in Entities, e2 \in Entities}
    \cup {JDict(<<KV("id", idv), KV("status", sv), KV("items", JList(<<e>>))>>) :
            idv \in IdValues, sv \in {JStr(""), JStr("Stopped")}, e \in Entities}
    \cup {JDict(<<KV("strategy_id", idv), KV("state", s1), KV("status", s2)>>) :
            idv \in IdValues, s1 \in StatusValues, s2 \in StatusValues}
    \cup {JDict(<<KV("id", JNum(42)), KV("name", JStr("x"))>>),
          JDict(<<>>), JList(<<>>), JStr("Running"), JNum(0), JNull}

FindStatus ==
    /\ ~fs_done
    /\ fs_result' = find_status(fs_doc, strategy_id, fs_order)
    /\ fs_done' = TRUE
    /\ UNCHANGED <<monVars, pairVars, runVars, invVars, codecVars, parserVars, fcsVars, strategy_id, fs_doc, fs_order>>

(***************************************************************************)
(* StatusHTMLParser.  HTMLParser.feed turns the markup into calls of       *)
(* handle_starttag, handle_endtag and handle_data; the parser is modelled  *)
(* on that stream of calls.                                                *)
(***************************************************************************)
MaxEvents == 6

\* StatusHTMLParser.__init__
NewParser ==
    [in_target |-> FALSE, target_depth |-> 0, awaiting_status_span |-> FALSE,
     capture_status |-> FALSE, status |-> ""]

StartTag(tag, id) == [kind |-> "start", tag |-> tag, id |-> id, data |-> ""]

EndTag(tag) == [kind |-> "end", tag |-> tag, id |-> "", data |-> ""]

Data(text) == [kind |-> "data", tag |-> "", id |-> "", data |-> text]

\* self.strategy_id in element_id, for the ids of the modelled markup
IdContains(element_id, sid) ==
    \/ element_id = "deployment-42" /\ sid = 42
    \/ element_id = "deployment-7" /\ sid = 7

\* data.strip() and "Status" in text, for the texts of the modelled markup
Texts == {" ", "Status", " Paused ", "Active"}

Strip(data) ==
    CASE data = " " -> ""
      [] data = " Paused " -> "Paused"
      [] OTHER -> data

HasStatusWord(text) == text = "Status"

StartTags ==
    {StartTag("div", id) : id \in {"", "deployment-42"}}
    \cup {StartTag("span", ""), StartTag("br", "")}

EndTags == {EndTag("div"), EndTag("span")}

handle_starttag(p, tag, element_id, sid) ==
    IF tag = "div" /\ element_id # "" /\ IdContains(element_id, sid) /\ ~p.in_target
    THEN [p EXCEPT !.in_target = TRUE, !.target_depth = 1]
    ELSE IF p.in_target
    THEN [p EXCEPT !.target_depth = p.target_depth + 1,
                   !.capture_status =
                        IF tag = "span" /\ p.awaiting_status_span /\ p.status = ""
                        THEN TRUE ELSE p.capture_status]
    ELSE p

\* handle_endtag without the reset at depth zero
handle_endtag_NoReset(p, tag) ==
    IF p.in_target
    THEN [p EXCEPT !.target_depth = p.target_depth - 1,
                   !.capture_status =
                        IF p.capture_status /\ tag = "span"
                        THEN FALSE ELSE p.capture_status,
                   !.awaiting_status_span =
                        IF p.capture_status /\ tag = "span"
                        THEN FALSE ELSE p.awaiting_status_span]
    ELSE p

handle_endtag(p, tag) ==
    IF p.in_target
    THEN LET q == [p EXCEPT !.target_depth = p.target_depth - 1,
                            !.capture_status =
                                IF p.capture_status /\ tag = "span"
                                THEN FALSE ELSE p.capture_status,
                            !.awaiting_status_span =
                                IF p.capture_status /\ tag = "span"
                                THEN FALSE ELSE p.awaiting_status_span]
         IN  IF q.target_depth <= 0
             THEN [q EXCEPT !.in_target = FALSE, !.target_depth = 0]
             ELSE q
    ELSE p

CapturesText_Overwrites(p) == p.capture_status

CapturesText(p) == p.capture_status /\ p.status = ""

handle_data(p, data) ==
    IF ~p.in_target THEN p
    ELSE IF Strip(data) = "" THEN p
    ELSE IF HasStatusWord(Strip(data))
    THEN [p EXCEPT !.awaiting_status_span = TRUE]
    ELSE IF CapturesText(p)
    THEN [p EXCEPT !.status = Strip(data)]
    ELSE p

\* one handler call
Handle(p, ev, sid) ==
    CASE ev.kind = "start" -> handle_starttag(p, ev.tag, ev.id, sid)
      [] ev.kind = "end" -> handle_endtag(p, ev.tag)
      [] ev.kind = "data" -> handle_data(p, ev.data)

RECURSIVE Feed(_, _, _, _)
\* parser.feed: the handler calls of a page, in order
Feed(p, page, j, sid) ==
    IF j > Len(page) THEN p
    ELSE Feed(Handle(p, page[j], sid), page, j + 1, sid)

Parser ==
    [in_target |-> in_target, target_depth |-> target_depth,
     awaiting_status_span |-> awaiting_status_span,
     capture_status |-> capture_status, status |-> parser_status]

ParserBecomes(p, ev) ==
    /\ in_target' = p.in_target
    /\ target_depth' = p.target_depth
    /\ awaiting_status_span' = p.awaiting_status_span
    /\ capture_status' = p.capture_status
    /\ parser_status' = p.status
    /\ events' = Append(events, ev)
    /\ UNCHANGED <<monVars, pairVars, runVars, invVars, codecVars, findVars, fcsVars>>

ParserStartTag ==
    /\ Len(events) < MaxEvents
    /\ \E ev \in StartTags :
        ParserBecomes(handle_starttag(Parser, ev.tag, ev.id, strategy_id), ev)

ParserEndTag ==
    /\ Len(events) < MaxEvents
    /\ \E ev \in EndTags : ParserBecomes(handle_endtag(Parser, ev.tag), ev)

ParserData ==
    /\ Len(events) < MaxEvents
    /\ \E text \in Texts : ParserBecomes(handle_data(Parser, text), Data(text))

(***************************************************************************)
(* fetch_current_status and fetch_status_from_html.                        *)
(***************************************************************************)
probes == <<"filter/dashboard", "deployed/status", "deployed/details">>

ProbeRaised == [kind |-> "exc", doc |-> JNull]

ProbeNon200 == [kind |-> "non200", doc |-> JNull]

ProbeBadJson == [kind |-> "badjson", doc |-> JNull]

ProbeJson(doc) == [kind |-> "json", doc |-> doc]

\* the documents a probe can answer with: empty ones, one whose node
\* matches the strategy id with a label, one matching with an empty
\* status, one of another strategy
ProbeDocuments ==
    {JDict(<<>>), JList(<<>>),
     Entity(JNum(42), JStr("Running")),
     Entity(JStr("42"), JStr("")),
     JDict(<<KV("list", JList(<<Entity(JStr("7"), JStr("Running"))>>))>>)}

ProbeResults ==
    {ProbeRaised, ProbeNon200, ProbeBadJson}
    \cup {ProbeJson(doc) : doc \in ProbeDocuments}

\* the dashboard pages: one with the status of the strategy, one without
Pages ==
    {<<StartTag("div", "deployment-42"), Data("Status"), StartTag("span", ""),
       Data(" Paused "), EndTag("span"), EndTag("div")>>,
     <<StartTag("div", "deployment-7"), Data("Status"), StartTag("span", ""),
       Data("Active"), EndTag("span"), EndTag("div")>>}

HtmlResults ==
    {[kind |-> "exc", page |-> <<>>], [kind |-> "non200", page |-> <<>>]}
    \cup {[kind |-> "page", page |-> page] : page \in Pages}

\* fetch_status_from_html once session.get has answered
fetch_status_from_html(h, sid) ==
    IF h.kind = "non200" THEN ""
    ELSE Feed(NewParser, h.page, 1, sid).status

BreaksOn_Never(doc) == FALSE

\* line 278: if data: break
BreaksOn(doc) == DocTruthy(doc)

NeedsFallback_Always(data) == TRUE

\* line 281: if not data
NeedsFallback(data) == ~DocTruthy(data)

\* one pass of "for probe in probes"
FcsProbe ==
    /\ fcs_pc = "probe"
    /\ \E o \in ProbeResults :
        /\ fcs_requests' = Append(fcs_requests, probes[fcs_probe])
        /\ fcs_outcomes' = Append(fcs_outcomes, o)
        /\ fcs_response' = IF o.kind = "exc" THEN fcs_response
                           ELSE probes[fcs_probe]
        /\ fcs_data' = IF o.kind = "json" THEN o.doc ELSE fcs_data
        /\ IF (o.kind = "json" /\ BreaksOn(o.doc)) \/ fcs_probe = Len(probes)
           THEN fcs_pc' = "after" /\ UNCHANGED fcs_probe
           ELSE fcs_probe' = fcs_probe + 1 /\ UNCHANGED fcs_pc
    /\ UNCHANGED <<monVars, pairVars, runVars, invVars, codecVars, findVars, parserVars, fcs_label>>

\* lines 281-285
FcsFallback ==
    /\ fcs_pc = "after"
    /\ NeedsFallback(fcs_data)
    /\ fcs_requests' = Append(fcs_requests, "dashboard")
    /\ \E h \in HtmlResults :
        IF h.kind = "exc"
        THEN /\ fcs_pc' = "raised"
             /\ UNCHANGED <<fcs_label, fcs_response>>
        ELSE /\ fcs_pc' = "returned"
             /\ fcs_label' = fetch_status_from_html(h, strategy_id)
             /\ fcs_response' = IF fetch_status_from_html(h, strategy_id) # ""
                                THEN "dashboard" ELSE fcs_response
    /\ UNCHANGED <<monVars, pairVars, runVars, invVars, codecVars, findVars, parserVars, fcs_probe, fcs_data,
                   fcs_outcomes>>

\* line 335
FcsExtract ==
    /\ fcs_pc = "after"
    /\ ~NeedsFallback(fcs_data)
    /\ \E order \in StatusKeyOrders :
        fcs_label' = find_status(fcs_data, strategy_id, order)
    /\ fcs_pc' = "returned"
    /\ UNCHANGED <<monVars, pairVars, runVars, invVars, codecVars, findVars, parserVars, fcs_probe, fcs_data,
                   fcs_response, fcs_requests, fcs_outcomes>>

(***************************************************************************)
(* Invocations.  The script is started again and again on one machine:     *)
(* each invocation gets its own environment (auth blob), while             *)
(* COOKIES_FILE stays on disk unless the machine is a fresh one.  Of an    *)
(* invocation only load_session and what main does with its result are     *)
(* kept; the toggle loop is one step.                                      *)
(***************************************************************************)
MaxRuns == 3

\* lines 55-71: where the cookies that load_session installs come from.
\* The Gopi script reads COOKIES_FILE, which it fills from the blob only
\* when the file does not exist; the Ramki script always reads the blob.
CookieSource_AlwaysBlob(v, file) == "blob"

CookieSource(v, file) ==
    IF v = "Gopi" /\ file # "absent" THEN "file" ELSE "blob"

\* `session = load_session()`, `if not session: sys.exit(1)`
InvLoad ==
    /\ inv_pc = "load"
    /\ \E blob \in Blobs, p \in ProbeOutcomes :
        LET res == load_session(inv_variant, inv_file, blob, p)
            from == IF CookieSource(inv_variant, inv_file) = "file"
                    THEN inv_file_from ELSE inv_no
        IN  /\ inv_blob' = blob
            /\ inv_file' = res.file
            /\ inv_file_from' = IF res.file # inv_file THEN inv_no
                                ELSE inv_file_from
            /\ inv_session' = res.ret
            /\ inv_source' = IF res.ret = "Session" THEN from ELSE 0
            /\ inv_probe' = res.probe
            /\ inv_pc' = IF AfterLoad(res.ret, 1) = "raised" THEN "raised"
                         ELSE IF AfterLoad(res.ret, 1) = "done" THEN "exited"
                         ELSE "run"
            /\ inv_exit' = IF res.ret = "None" THEN 1 ELSE inv_exit
    /\ UNCHANGED <<monVars, pairVars, runVars, findVars, parserVars, fcsVars, codecVars, inv_variant, inv_no,
                   inv_toggled>>

\* the exception of load_session reaches the handler of the entry point
InvExcept ==
    /\ inv_pc = "raised"
    /\ inv_pc' = "exited"
    /\ inv_exit' = 1
    /\ UNCHANGED <<monVars, pairVars, runVars, findVars, parserVars, fcsVars, codecVars, inv_variant, inv_no,
                   inv_blob, inv_file, inv_file_from, inv_session, inv_source,
                   inv_probe, inv_toggled>>

\* the toggle loop, the closing command and the summary
InvRun ==
    /\ inv_pc = "run"
    /\ inv_toggled' = TRUE
    /\ inv_exit' \in {0, 1}
    /\ inv_pc' = "exited"
    /\ UNCHANGED <<monVars, pairVars, runVars, findVars, parserVars, fcsVars, codecVars, inv_variant, inv_no,
                   inv_blob, inv_file, inv_file_from, inv_session, inv_source,
                   inv_probe>>

\* the next invocation: a new process with a new environment, on the same
\* disk or on a fresh machine
InvAgain ==
    /\ inv_pc = "exited"
    /\ inv_no < MaxRuns
    /\ inv_no' = inv_no + 1
    /\ inv_pc' = "load"
    /\ inv_blob' = "unread"
    /\ inv_session' = "None"
    /\ inv_source' = 0
    /\ inv_probe' = "unsent"
    /\ inv_toggled' = FALSE
    /\ inv_exit' = 0
    /\ \E fresh \in BOOLEAN :
        IF fresh THEN inv_file' = "absent" /\ inv_file_from' = 0
        ELSE UNCHANGED <<inv_file, inv_file_from>>
    /\ UNCHANGED <<monVars, pairVars, runVars, findVars, parserVars, fcsVars, codecVars, inv_variant>>

(***************************************************************************)
(* The cookie blob.  login_and_save_cookies pickles cookies_list, a list   *)
(* of dicts with the keys name, value, domain, and prints the base64 text  *)
(* of the bytes; load_session base64-decodes the text and unpickles the    *)
(* bytes.  Bytes are numbers 0..255, strings are sequences of bytes.       *)
(***************************************************************************)
MaxCookies == 50

\* base64 -----------------------------------------------------------------
\* the character of the standard alphabet for a 6-bit value
B64Char_UrlSafe(v) ==
    IF v < 26 THEN 65 + v
    ELSE IF v < 52 THEN 97 + (v - 26)
    ELSE IF v < 62 THEN 48 + (v - 52)
    ELSE IF v = 62 THEN 45 ELSE 95

B64Char(v) ==
    IF v < 26 THEN 65 + v
    ELSE IF v < 52 THEN 97 + (v - 26)
    ELSE IF v < 62 THEN 48 + (v - 52)
    ELSE IF v = 62 THEN 43 ELSE 47

B64Pad == 61

\* the 6-bit value of a character, -1 for a character outside the alphabet
B64Value(c) ==
    IF c >= 65 /\ c <= 90 THEN c - 65
    ELSE IF c >= 97 /\ c <= 122 THEN c - 97 + 26
    ELSE IF c >= 48 /\ c <= 57 THEN c - 48 + 52
    ELSE IF c = 43 THEN 62
    ELSE IF c = 47 THEN 63
    ELSE -1

ByteAt(bytes, k) == IF k <= Len(bytes) THEN bytes[k] ELSE 0

Pow(b, e) == IF e = 0 THEN 1 ELSE IF e = 1 THEN b ELSE IF e = 2 THEN b * b
             ELSE b * b * b

\* base64.b64encode(bytes).decode('utf-8')
b64encode(bytes) ==
    [j \in 1..(4 * ((Len(bytes) + 2) \div 3)) |->
        LET g == (j - 1) \div 4
            r == (j - 1) % 4
            v == ByteAt(bytes, 3 * g + 1) * 65536
                 + ByteAt(bytes, 3 * g + 2) * 256
                 + ByteAt(bytes, 3 * g + 3)
        IN  IF 3 * g + r > Len(bytes) THEN B64Pad
            ELSE B64Char((v \div Pow(64, 3 - r)) % 64)]

\* base64.b64decode(encoded): characters outside the alphabet are dropped
B64Text(encoded) ==
    SelectSeq(encoded, LAMBDA c : B64Value(c) >= 0 \/ c = B64Pad)

\* binascii.Error "Incorrect padding"
b64decode_raises(encoded) == Len(B64Text(encoded)) % 4 # 0

b64decode(encoded) ==
    LET text == B64Text(encoded)
        pads == IF Len(text) >= 2 /\ text[Len(text) - 1] = B64Pad THEN 2
                ELSE IF Len(text) >= 1 /\ text[Len(text)] = B64Pad THEN 1
                ELSE 0
        val(j) == IF text[j] = B64Pad THEN 0 ELSE B64Value(text[j])
    IN  [k \in 1..(3 * (Len(text) \div 4) - pads) |->
            LET g == (k - 1) \div 3
                r == (k - 1) % 3
                v == val(4 * g + 1) * 262144 + val(4 * g + 2) * 4096
                     + val(4 * g + 3) * 64 + val(4 * g + 4)
            IN  (v \div Pow(256, 2 - r)) % 256]

\* pickle, protocol 4 -------------------------------------------------------
PROTO == 128
FRAME == 149
EMPTY_LIST == 93
EMPTY_DICT == 125
MARK == 40
MEMOIZE == 148
SHORT_BINUNICODE == 140
BINGET == 104
SETITEMS == 117
APPEND == 97
APPENDS == 101
STOP == 46

\* the dict keys 'name', 'value', 'domain' and the default '.tradetron.tech'
KeyName == <<110, 97, 109, 101>>
KeyValue == <<118, 97, 108, 117, 101>>
KeyDomain == <<100, 111, 109, 97, 105, 110>>
DefaultDomain ==
    <<46, 116, 114, 97, 100, 101, 116, 114, 111, 110, 46, 116, 101, 99, 104>>

\* a str of fewer than 256 bytes, remembered in the memo
PickleStr(str) == <<SHORT_BINUNICODE, Len(str)>> \o str \o <<MEMOIZE>>

\* The pickler remembers every object it saves and refers to the memo when
\* it meets the same object again.  The same object are: the keys and the
\* default domain, which are literals of the login script, and, in
\* CPython, equal strs of at most one character.  A slot is a str to save
\* with that property.
Slot(str, shared) == [b |-> str, shared |-> shared \/ Len(str) <= 1]

Saved(bytes, memo_n, seen) == [bytes |-> bytes, memo_n |-> memo_n, seen |-> seen]

\* save one str: memo_n is the size of the memo, seen the shared strs in it
SaveStr(slot, memo_n, seen) ==
    IF slot.shared /\ \E e \in 1..Len(seen) : seen[e].b = slot.b
    THEN Saved(<<BINGET, seen[CHOOSE e \in 1..Len(seen) : seen[e].b = slot.b].idx>>,
               memo_n, seen)
    ELSE Saved(PickleStr(slot.b), memo_n + 1,
               IF slot.shared THEN Append(seen, [b |-> slot.b, idx |-> memo_n])
               ELSE seen)

RECURSIVE SaveSlots(_, _, _, _)
SaveSlots(slots, j, memo_n, seen) ==
    IF j > Len(slots) THEN Saved(<<>>, memo_n, seen)
    ELSE LET head == SaveStr(slots[j], memo_n, seen)
             rest == SaveSlots(slots, j + 1, head.memo_n, head.seen)
         IN  Saved(head.bytes \o rest.bytes, rest.memo_n, rest.seen)

\* save_dict of {'name': ..., 'value': ..., 'domain': ...}
SaveDict(c, memo_n, seen) ==
    LET items == SaveSlots(<<Slot(KeyName, TRUE), Slot(c.name, FALSE),
                             Slot(KeyValue, TRUE), Slot(c.value, FALSE),
                             Slot(KeyDomain, TRUE), Slot(c.domain, ~c.own)>>,
                           1, memo_n + 1, seen)
    IN  Saved(<<EMPTY_DICT, MEMOIZE, MARK>> \o items.bytes \o <<SETITEMS>>,
              items.memo_n, items.seen)

RECURSIVE SaveDicts(_, _, _, _)
\* the dicts of the list from the k-th on
SaveDicts(list, k, memo_n, seen) ==
    IF k > Len(list) THEN <<>>
    ELSE LET head == SaveDict(list[k], memo_n, seen)
         IN  head.bytes \o SaveDicts(list, k + 1, head.memo_n, head.seen)

\* the length of a frame, eight bytes, low byte first
LE8(n) == <<n % 256, (n \div 256) % 256, (n \div 65536) % 256, 0, 0, 0, 0, 0>>

\* save_list: nothing for an empty list, APPEND after a single item,
\* MARK ... APPENDS around several
ListItems(list) ==
    IF Len(list) = 0 THEN <<>>
    ELSE IF Len(list) = 1 THEN SaveDicts(list, 1, 1, <<>>) \o <<APPEND>>
    ELSE <<MARK>> \o SaveDicts(list, 1, 1, <<>>) \o <<APPENDS>>

\* pickle.dumps(cookies_list)
pickle_dumps(list) ==
    LET payload == <<EMPTY_LIST, MEMOIZE>> \o ListItems(list) \o <<STOP>>
    IN  IF Len(payload) >= 4
        THEN <<PROTO, 4, FRAME>> \o LE8(Len(payload)) \o payload
        ELSE <<PROTO, 4>> \o payload

\* the objects on the unpickler's stack
PObj(t, b, items) == [t |-> t, b |-> b, items |-> items]

PRaise == [st |-> "raise", pos |-> 0, stack |-> <<>>, memo |-> <<>>]

\* index of the topmost mark of the stack, 0 if there is none
TopMark(stack) ==
    IF \E j \in 1..Len(stack) : stack[j].t = "mark"
    THEN CHOOSE j \in 1..Len(stack) :
            /\ stack[j].t = "mark"
            /\ \A h \in (j + 1)..Len(stack) : stack[h].t # "mark"
    ELSE 0

Unpickling(pos, stack, memo) ==
    [st |-> "run", pos |-> pos, stack |-> stack, memo |-> memo]

\* one opcode of pickle.loads at position pos, with the stack and the memo
\* so far: the unpickler goes on, stops with the object on top of the
\* stack, or raises.  A memo entry is a copy of the object at the time it
\* was remembered; the streams considered fetch strs only.
Unpickle(bytes, pos, stack, memo) ==
    IF pos > Len(bytes) THEN PRaise
    ELSE LET op == bytes[pos]
             n == Len(stack)
             m == TopMark(stack)
         IN
         IF op = PROTO
         THEN IF pos + 1 > Len(bytes) THEN PRaise
              ELSE Unpickling(pos + 2, stack, memo)
         ELSE IF op = FRAME
         THEN IF pos + 8 > Len(bytes)
                 \/ pos + 8 + bytes[pos + 1] + 256 * bytes[pos + 2]
                        + 65536 * bytes[pos + 3] > Len(bytes)
              THEN PRaise
              ELSE Unpickling(pos + 9, stack, memo)
         ELSE IF op = EMPTY_LIST
         THEN Unpickling(pos + 1, Append(stack, PObj("list", <<>>, <<>>)), memo)
         ELSE IF op = EMPTY_DICT
         THEN Unpickling(pos + 1, Append(stack, PObj("dict", <<>>, <<>>)), memo)
         ELSE IF op = MARK
         THEN Unpickling(pos + 1, Append(stack, PObj("mark", <<>>, <<>>)), memo)
         ELSE IF op = MEMOIZE
         THEN IF n = 0 THEN PRaise
              ELSE Unpickling(pos + 1, stack, Append(memo, stack[n]))
         ELSE IF op = SHORT_BINUNICODE
         THEN IF pos + 1 > Len(bytes) \/ pos + 1 + bytes[pos + 1] > Len(bytes)
              THEN PRaise
              ELSE Unpickling(pos + 2 + bytes[pos + 1],
                        Append(stack,
                            PObj("str",
                                 SubSeq(bytes, pos + 2, pos + 1 + bytes[pos + 1]),
                                 <<>>)),
                        memo)
         ELSE IF op = BINGET
         THEN IF pos + 1 > Len(bytes) \/ bytes[pos + 1] + 1 > Len(memo)
              THEN PRaise
              ELSE Unpickling(pos + 2,
                        Append(stack, memo[bytes[pos + 1] + 1]), memo)
         ELSE IF op = SETITEMS
         THEN IF m < 2 \/ stack[m - 1].t # "dict" \/ (n - m) % 2 # 0
              THEN PRaise
              ELSE Unpickling(pos + 1,
                        SubSeq(stack, 1, m - 2)
                        \o <<PObj("dict", <<>>,
                                  stack[m - 1].items \o SubSeq(stack, m + 1, n))>>,
                        memo)
         ELSE IF op = APPEND
         THEN IF n < 2 \/ stack[n - 1].t # "list" THEN PRaise
              ELSE Unpickling(pos + 1,
                        SubSeq(stack, 1, n - 2)
                        \o <<PObj("list", <<>>, Append(stack[n - 1].items, stack[n]))>>,
                        memo)
         ELSE IF op = APPENDS
         THEN IF m < 2 \/ stack[m - 1].t # "list" THEN PRaise
              ELSE Unpickling(pos + 1,
                        SubSeq(stack, 1, m - 2)
                        \o <<PObj("list", <<>>,
                                  stack[m - 1].items \o SubSeq(stack, m + 1, n))>>,
                        memo)
         ELSE IF op = STOP
         THEN IF n = 0 THEN PRaise
              ELSE [st |-> "stop", pos |-> pos, stack |-> <<stack[n]>>,
                    memo |-> memo]
         ELSE PRaise


\* `for cookie in cookies: session.cookies.set(cookie['name'],
\* cookie['value'], domain=cookie.get('domain'))`
DictHas(d, key) ==
    \E j \in 1..(Len(d.items) \div 2) : d.items[2 * j - 1].b = key

DictGet(d, key) ==
    d.items[2 * (CHOOSE j \in 1..(Len(d.items) \div 2) :
                    /\ d.items[2 * j - 1].b = key
                    /\ \A h \in (j + 1)..(Len(d.items) \div 2) :
                          d.items[2 * h - 1].b # key)].b

\* the loop raises on anything that is not a list of dicts with the keys
\* name and value
SetCookiesRaises(obj) ==
    \/ obj.t # "list"
    \/ \E k \in 1..Len(obj.items) :
        \/ obj.items[k].t # "dict"
        \/ ~DictHas(obj.items[k], KeyName)
        \/ ~DictHas(obj.items[k], KeyValue)

NoDomain == <<-1>>

SetCookies(obj) ==
    [k \in 1..Len(obj.items) |->
        [name |-> DictGet(obj.items[k], KeyName),
         value |-> DictGet(obj.items[k], KeyValue),
         domain |-> IF DictHas(obj.items[k], KeyDomain)
                    THEN DictGet(obj.items[k], KeyDomain) ELSE NoDomain]]

\* the cookies the browser hands to the login script: the k-th is named
\* c<k>, its value has up to three characters, and its domain is its own
\* or missing, in which case the script puts the default literal
CookieCounts == {0, 1, 2, 3, MaxCookies}

CookiePatterns ==
    [vlen : 0..2, own : {"all", "none", "odd"}]

Cookie(k, pat) ==
    LET own == pat.own = "all" \/ (pat.own = "odd" /\ k % 2 = 1)
    IN  [name |-> <<99, 48 + (k \div 10), 48 + (k % 10)>>,
         value |-> SubSeq(<<126, 63, 126, 63>>, 1, (pat.vlen + k) % 4),
         domain |-> IF own THEN <<46, 116, 116>> ELSE DefaultDomain,
         own |-> own]

CookieLists ==
    {[k \in 1..n |-> Cookie(k, pat)] : n \in CookieCounts, pat \in CookiePatterns}

\* COOKIES_FILE.write_bytes(pickle.dumps(cookies_list))
CodecDump ==
    /\ codec_pc = "cookies"
    /\ pickled' = pickle_dumps(cookies_list)
    /\ codec_pc' = "pickled"
    /\ UNCHANGED <<monVars, pairVars, runVars, findVars, parserVars, fcsVars, invVars,
                   cookies_list, cookies_b64, cookies_bytes, unpickler, cookies>>

\* cookies_b64 = base64.b64encode(COOKIES_FILE.read_bytes()).decode('utf-8')
CodecEncode ==
    /\ codec_pc = "pickled"
    /\ cookies_b64' = b64encode(pickled)
    /\ codec_pc' = "encoded"
    /\ UNCHANGED <<monVars, pairVars, runVars, findVars, parserVars, fcsVars, invVars,
                   cookies_list, pickled, cookies_bytes, unpickler, cookies>>

\* load_session: cookies_bytes = base64.b64decode(encoded)
CodecDecode ==
    /\ codec_pc = "encoded"
    /\ IF b64decode_raises(cookies_b64)
       THEN codec_pc' = "raised" /\ UNCHANGED cookies_bytes
       ELSE codec_pc' = "restored" /\ cookies_bytes' = b64decode(cookies_b64)
    /\ UNCHANGED <<monVars, pairVars, runVars, findVars, parserVars, fcsVars, invVars,
                   cookies_list, pickled, cookies_b64, unpickler, cookies>>

\* load_session: pickle.loads(cookies_bytes), one opcode
CodecUnpickle ==
    /\ codec_pc = "restored"
    /\ unpickler.st = "run"
    /\ unpickler' = Unpickle(cookies_bytes, unpickler.pos, unpickler.stack,
                             unpickler.memo)
    /\ codec_pc' = IF unpickler'.st = "raise" THEN "raised" ELSE codec_pc
    /\ UNCHANGED <<monVars, pairVars, runVars, findVars, parserVars, fcsVars, invVars,
                   cookies_list, pickled, cookies_b64, cookies_bytes, cookies>>

\* load_session: cookies = <what pickle.loads returned> and the loop over them
CodecLoad ==
    /\ codec_pc = "restored"
    /\ unpickler.st = "stop"
    /\ IF SetCookiesRaises(unpickler.stack[1])
       THEN codec_pc' = "raised" /\ UNCHANGED cookies
       ELSE codec_pc' = "loaded" /\ cookies' = SetCookies(unpickler.stack[1])
    /\ UNCHANGED <<monVars, pairVars, runVars, findVars, parserVars, fcsVars, invVars,
                   cookies_list, pickled, cookies_b64, cookies_bytes, unpickler>>

(***************************************************************************)
(* The toggle phase of the two scripts side by side.  From                 *)
(* `had_failure = False` to the exit, main of the Gopi script (lines       *)
(* 441-571) and main of the Ramki script (lines 191-307) are each run as a *)
(* record, one statement group per step; both take the same input at each  *)
(* step: the outcome of the POST if the step sends one, and whether the    *)
(* step's try block raises.  A record keeps every command issued so far    *)
(* and the sleeps taken since the last command was issued.                 *)
(***************************************************************************)
DELAY_SECONDS == 1      \* int(os.getenv("DELAY_SECONDS", "1"))

Sleep(kind, secs) == [kind |-> kind, secs |-> secs]

\* main after `if not session: sys.exit(1)`, with NUM_TOGGLES = n
ToggleStart(n) ==
    [pc |-> AfterLoad("Session", n), ts |-> "idle", n |-> n, i |-> 0,
     attempt |-> 0, last_response |-> None, response |-> None,
     had_failure |-> FALSE, details |-> 0, calls |-> <<>>, sleeps |-> <<>>,
     exit_code |-> 0]

\* toggle_strategy is entered
PairCall(st) ==
    [st EXCEPT !.ts = "loop", !.attempt = 1, !.last_response = None,
               !.calls = Append(@, CommandAt(st.pc)), !.sleeps = <<>>]

\* one iteration of toggle_strategy's loop, the POST ending in o
PairPost(st, o) ==
    LET r == ResponseOf(o)
        lr == IF o.exc THEN st.last_response ELSE r
        returns == IF r.none THEN ~SleepsAfter(st.attempt)
                   ELSE IsTerminal(r) \/ st.attempt >= retries
        value == IF r.none THEN ReturnAfterRaise(st.last_response)
                 ELSE IF IsTerminal(r) THEN r ELSE lr
        slept == IF r.none THEN SleepsAfter(st.attempt)
                 ELSE ~IsTerminal(r) /\ SleepsAfter(st.attempt)
    IN  [st EXCEPT !.last_response = lr,
                   !.sleeps = IF slept
                              THEN Append(@, Sleep("backoff", BackoffSleep(st.attempt)))
                              ELSE @,
                   !.ts = IF returns THEN "ret" ELSE "loop",
                   !.response = IF returns THEN value ELSE @,
                   !.attempt = IF returns THEN @ ELSE @ + 1]

\* a step's `except Exception as e:` or its else branch
PairFailed(st, added) ==
    [st EXCEPT !.had_failure = TRUE, !.details = @ + added,
               !.pc = AfterFailure, !.ts = "idle"]

\* the Stop step, after toggle_strategy returned
PairStop(st, exc) ==
    IF exc THEN PairFailed(st, 1)
    ELSE IF StepOk(st.response)
    THEN [st EXCEPT !.details =
                        @ + Len(JsonDetails("STOP command JSON parse error",
                                            st.response)),
                    !.sleeps = Append(@, Sleep("delay", DELAY_SECONDS)),
                    !.pc = "start", !.ts = "idle"]
    ELSE PairFailed(st, Len(FailureDetails("STOP command failed", st.i + 1,
                                           st.response)))

\* the Start step, after toggle_strategy returned
PairStartStep(st, exc) ==
    IF exc THEN PairFailed(st, 1)
    ELSE IF StepOk(st.response)
    THEN [st EXCEPT !.details =
                        @ + Len(JsonDetails("START command JSON parse error",
                                            st.response)),
                    !.sleeps = IF DelayAfterStart(st.i, st.n) = 1
                               THEN Append(@, Sleep("delay", DELAY_SECONDS))
                               ELSE @,
                    !.pc = AfterStart(st.i, st.n),
                    !.i = IF st.i < st.n - 1 THEN @ + 1 ELSE @,
                    !.ts = "idle"]
    ELSE PairFailed(st, Len(FailureDetails("START command failed", st.i + 1,
                                           st.response)))

\* the closing command, after toggle_strategy returned
PairFinal(st) ==
    IF ClosingFailed(st.response)
    THEN [st EXCEPT !.had_failure = TRUE,
                    !.details = @ + Len(FailureDetails("Final STOP command failed",
                                                       0, st.response)),
                    !.pc = "summary", !.ts = "idle"]
    ELSE [st EXCEPT !.pc = "summary", !.ts = "idle"]

\* `if had_failure: ... sys.exit(1)`, or the summary and the return
PairEnd(st) ==
    [st EXCEPT !.pc = "done",
               !.exit_code = IF SummaryBranch(st.had_failure) = "report"
                             THEN 1 ELSE 0]

\* the next statement group of main
MainStep(st, o, exc) ==
    IF st.pc = "done" THEN st
    ELSE IF st.pc = "summary" THEN PairEnd(st)
    ELSE IF st.ts = "idle" THEN PairCall(st)
    ELSE IF st.ts = "loop" THEN PairPost(st, o)
    ELSE IF st.pc = "stop" THEN PairStop(st, exc)
    ELSE IF st.pc = "start" THEN PairStartStep(st, exc)
    ELSE PairFinal(st)

VariantStep_RamkiWithoutClosing(v, st, o, exc) ==
    IF v = "Ramki" /\ st.pc = "final" /\ st.ts = "idle"
    THEN [st EXCEPT !.pc = "summary"]
    ELSE MainStep(st, o, exc)

\* the toggle phase of script v: Gopi lines 441-543 and Ramki lines 191-285
\* are the same statements, and so are the two toggle_strategy
VariantStep(v, st, o, exc) == MainStep(st, o, exc)

\* the input a step takes: a POST is sent, or a step's try block is left
PairInputs(st) ==
    IF st.pc # "done" /\ st.ts = "loop"
    THEN {[o |-> o, exc |-> FALSE] : o \in Outcomes}
    ELSE IF st.pc \in {"stop", "start"} /\ st.ts = "ret"
    THEN {[o |-> Raised, exc |-> e] : e \in BOOLEAN}
    ELSE {[o |-> Raised, exc |-> FALSE]}

\* both scripts take their next step on the same input
PairStep ==
    /\ gopi_run.pc # "done" \/ ramki_run.pc # "done"
    /\ \E in \in PairInputs(gopi_run) \cup PairInputs(ramki_run) :
        /\ gopi_run' = VariantStep("Gopi", gopi_run, in.o, in.exc)
        /\ ramki_run' = VariantStep("Ramki", ramki_run, in.o, in.exc)
    /\ UNCHANGED <<runVars, findVars, parserVars, fcsVars, invVars, codecVars,
                   monVars>>

(***************************************************************************)
(* dual_wallet_monitor.  check_wallet_cookie is a function of what the     *)
(* environment holds for the wallet and of what the answer request meets;   *)
(* main is run one statement group per step.                               *)
(***************************************************************************)
\* the cookie blob of a wallet: absent, not base64, base64 of bytes that do
\* not unpickle to a list of cookie dicts, or a usable one
MonBlobs == {"missing", "undecodable", "badpickle", "good"}

\* what GET /api/pricing/user-taxes meets: a timeout, another exception, a
\* status other than 200, or 200 with a body: not JSON, JSON that is not a
\* mapping, a mapping whose "data" is null, a mapping without "data", one
\* whose balances are a mapping, and one whose balances are null
MonProbes ==
    {"timeout", "exc", "401", "500", "200 badjson", "200 list",
     "200 data null", "200 no data", "200 balances", "200 balances null"}

Checked(valid, info, blob, answer) ==
    [valid |-> valid, info |-> info, blob |-> blob, probe |-> answer]

NotChecked == Checked(FALSE, "unset", "unread", "unsent")

\* the except branch of `data = response.json(); balances = data.get(...)`
\* is taken when the body does not decode and when a .get meets a value
\* that is not a mapping
BalancesRaise(answer) ==
    answer \in {"200 badjson", "200 list", "200 data null"}

\* balances as returned with True: a mapping, {} or None
Balances(answer) ==
    IF answer = "200 balances" THEN "dict"
    ELSE IF answer = "200 no data" THEN "empty dict"
    ELSE "None"

\* check_wallet_cookie: (is_valid, wallet_info_dict)
check_wallet_cookie(blob, answer) ==
    IF blob = "missing" THEN Checked(FALSE, "error: not found", blob, "unsent")
    ELSE IF blob = "undecodable"
    THEN Checked(FALSE, "error: base64", blob, "unsent")
    ELSE IF blob = "badpickle"
    THEN Checked(FALSE, "error: cookie load", blob, "unsent")
    ELSE IF answer = "timeout" THEN Checked(FALSE, "error: timeout", blob, answer)
    ELSE IF answer = "exc" THEN Checked(FALSE, "error: request", blob, answer)
    ELSE IF answer = "401" THEN Checked(FALSE, "error: expired", blob, answer)
    ELSE IF answer = "500" THEN Checked(FALSE, "error: api", blob, answer)
    ELSE IF BalancesRaise(answer) THEN Checked(FALSE, "error: json", blob, answer)
    ELSE Checked(TRUE, Balances(answer), blob, answer)

\* format_telegram_message calls gopi_info.get and ramki_info.get before it
\* looks at the valid flags: it raises when an info is not a mapping
format_telegram_message_raises(g, r) == g.info = "None" \/ r.info = "None"

\* `return 0 if (gopi_valid and ramki_valid) else 1`
MonReturn(g, r) == IF g.valid /\ r.valid THEN 0 ELSE 1

MonUnchanged == UNCHANGED <<runVars, findVars, parserVars, fcsVars, invVars,
                            codecVars, pairVars>>

\* the secrets check of a GitHub run: sys.exit(1) on a missing secret
MonSecretsMissing ==
    /\ mon_pc = "secrets"
    /\ mon_pc' = "exited"
    /\ mon_ret' = 1
    /\ UNCHANGED <<gopi_check, ramki_check, mon_checked, mon_sent>>
    /\ MonUnchanged

\* a local run, or a GitHub run with all its secrets
MonSecretsOk ==
    /\ mon_pc = "secrets"
    /\ mon_pc' = "gopi"
    /\ UNCHANGED <<gopi_check, ramki_check, mon_checked, mon_sent, mon_ret>>
    /\ MonUnchanged

\* gopi_valid, gopi_info = check_wallet_cookie("Gopi", "TT_COOKIES_B64_GOPI")
MonCheckGopi ==
    /\ mon_pc = "gopi"
    /\ \E blob \in MonBlobs, answer \in MonProbes :
            gopi_check' = check_wallet_cookie(blob, answer)
    /\ mon_checked' = Append(mon_checked, "Gopi")
    /\ mon_pc' = "ramki"
    /\ UNCHANGED <<ramki_check, mon_sent, mon_ret>>
    /\ MonUnchanged

\* ramki_valid, ramki_info = check_wallet_cookie("Ramki", "TT_COOKIES_B64_RAMKI")
MonCheckRamki ==
    /\ mon_pc = "ramki"
    /\ \E blob \in MonBlobs, answer \in MonProbes :
            ramki_check' = check_wallet_cookie(blob, answer)
    /\ mon_checked' = Append(mon_checked, "Ramki")
    /\ mon_pc' = "format"
    /\ UNCHANGED <<gopi_check, mon_sent, mon_ret>>
    /\ MonUnchanged

\* telegram_msg = format_telegram_message(...)
MonFormat ==
    /\ mon_pc = "format"
    /\ mon_pc' = IF format_telegram_message_raises(gopi_check, ramki_check)
                 THEN "raised" ELSE "notify"
    /\ UNCHANGED <<gopi_check, ramki_check, mon_checked, mon_sent, mon_ret>>
    /\ MonUnchanged

\* `if send_telegram_message(telegram_msg):` and the return
MonNotify ==
    /\ mon_pc = "notify"
    /\ mon_sent' = mon_sent + 1
    /\ mon_ret' = MonReturn(gopi_check, ramki_check)
    /\ mon_pc' = "returned"
    /\ UNCHANGED <<gopi_check, ramki_check, mon_checked>>
    /\ MonUnchanged

(***************************************************************************)
(* Specification                                                           *)
(***************************************************************************)
FindIdle ==
    /\ strategy_id = 42
    /\ fs_doc = JNull
    /\ fs_order = <<>>
    /\ fs_result = ""
    /\ fs_done = TRUE

ParserIdle ==
    /\ in_target = FALSE
    /\ target_depth = 0
    /\ awaiting_status_span = FALSE
    /\ capture_status = FALSE
    /\ parser_status = ""
    /\ events = <<>>

FcsIdle ==
    /\ fcs_pc = "off"
    /\ fcs_probe = 1
    /\ fcs_data = JNull
    /\ fcs_response = "None"
    /\ fcs_label = ""
    /\ fcs_requests = <<>>
    /\ fcs_outcomes = <<>>

InvIdle ==
    /\ inv_variant = "Gopi"
    /\ inv_no = 0
    /\ inv_pc = "off"
    /\ inv_blob = "unread"
    /\ inv_file = "absent"
    /\ inv_file_from = 0
    /\ inv_session = "None"
    /\ inv_source = 0
    /\ inv_probe = "unsent"
    /\ inv_toggled = FALSE
    /\ inv_exit = 0

MonIdle ==
    /\ mon_pc = "off"
    /\ gopi_check = NotChecked
    /\ ramki_check = NotChecked
    /\ mon_checked = <<>>
    /\ mon_sent = 0
    /\ mon_ret = 0

PairIdle ==
    /\ gopi_run = ToggleStart(0)
    /\ ramki_run = ToggleStart(0)

CodecIdle ==
    /\ codec_pc = "off"
    /\ cookies_list = <<>>
    /\ pickled = <<>>
    /\ cookies_b64 = <<>>
    /\ cookies_bytes = <<>>
    /\ unpickler = Unpickling(1, <<>>, <<>>)
    /\ cookies = <<>>

RunIdle ==
    /\ variant = "Gopi"
    /\ pc = "off"
    /\ exit_code = 0
    /\ cookie_file = "absent"
    /\ session = "None"
    /\ probe = "unsent"
    /\ NUM_TOGGLES = 0
    /\ i = 0
    /\ had_failure = FALSE
    /\ error_details = <<>>
    /\ response = None
    /\ ts = "idle"
    /\ status = ""
    /\ attempt = 0
    /\ last_response = None
    /\ posts = <<>>
    /\ sleeps = <<>>
    /\ calls = <<>>
    /\ fail_at = 0
    /\ completed = 0
    /\ issued = ""
    /\ acked = ""
    /\ delays = 0
    /\ sent = <<>>
    /\ running_count = "unset"
    /\ lookups = 0
    /\ escaped = FALSE
    /\ notify = NoNotify

Init ==
    /\ variant \in {"Gopi", "Ramki"}
    /\ pc = "config"
    /\ exit_code = 0
    /\ cookie_file \in (IF variant = "Gopi" THEN {"absent", "good", "bad"}
                        ELSE {"absent"})
    /\ session = "None"
    /\ probe = "unsent"
    /\ NUM_TOGGLES = 0
    /\ i = 0
    /\ had_failure = FALSE
    /\ error_details = <<>>
    /\ response = None
    /\ ts = "idle"
    /\ status = ""
    /\ attempt = 0
    /\ last_response = None
    /\ posts = <<>>
    /\ sleeps = <<>>
    /\ calls = <<>>
    /\ fail_at = 0
    /\ completed = 0
    /\ issued = ""
    /\ acked = ""
    /\ delays = 0
    /\ sent = <<>>
    /\ running_count = "unset"
    /\ lookups = 0
    /\ escaped = FALSE
    /\ notify = NoNotify
    /\ FindIdle
    /\ ParserIdle
    /\ FcsIdle
    /\ InvIdle
    /\ CodecIdle
    /\ PairIdle
    /\ MonIdle

Next ==
    \/ ConfigMissing
    \/ ConfigBadInt
    \/ ConfigOk
    \/ LoadSession
    \/ TSCall
    \/ TSPost
    \/ HandleStop
    \/ StopExcept
    \/ HandleStart
    \/ StartExcept
    \/ HandleFinal
    \/ FailReport
    \/ WalletSummary
    \/ TopLevelExcept

Spec == Init /\ [][Next]_vars

\* the interpreter keeps executing: a run that can take a step takes one
FairSpec == Spec /\ WF_vars(Next)

\* find_status applied to one document
InitFind ==
    /\ RunIdle
    /\ strategy_id \in StrategyIds
    /\ fs_doc \in Documents
    /\ fs_order \in StatusKeyOrders
    /\ fs_result = ""
    /\ fs_done = FALSE
    /\ ParserIdle
    /\ FcsIdle
    /\ InvIdle
    /\ CodecIdle
    /\ PairIdle
    /\ MonIdle

NextFind ==
    \/ FindStatus

SpecFind == InitFind /\ [][NextFind]_vars

\* a new StatusHTMLParser(42) fed one handler call after another
InitParser ==
    /\ RunIdle
    /\ FindIdle
    /\ ParserIdle
    /\ FcsIdle
    /\ InvIdle
    /\ CodecIdle
    /\ PairIdle
    /\ MonIdle

NextParser ==
    \/ ParserStartTag
    \/ ParserEndTag
    \/ ParserData

SpecParser == InitParser /\ [][NextParser]_vars

\* one call fetch_current_status(session, 42)
InitResolver ==
    /\ RunIdle
    /\ FindIdle
    /\ ParserIdle
    /\ InvIdle
    /\ CodecIdle
    /\ PairIdle
    /\ MonIdle
    /\ fcs_pc = "probe"
    /\ fcs_probe = 1
    /\ fcs_data = JNull
    /\ fcs_response = "None"
    /\ fcs_label = ""
    /\ fcs_requests = <<>>
    /\ fcs_outcomes = <<>>

NextResolver ==
    \/ FcsProbe
    \/ FcsFallback
    \/ FcsExtract

SpecResolver == InitResolver /\ [][NextResolver]_vars

\* the first invocation on a machine without a cookie file
InitInvocations ==
    /\ RunIdle
    /\ FindIdle
    /\ ParserIdle
    /\ FcsIdle
    /\ CodecIdle
    /\ PairIdle
    /\ MonIdle
    /\ inv_variant \in {"Gopi", "Ramki"}
    /\ inv_no = 1
    /\ inv_pc = "load"
    /\ inv_blob = "unread"
    /\ inv_file = "absent"
    /\ inv_file_from = 0
    /\ inv_session = "None"
    /\ inv_source = 0
    /\ inv_probe = "unsent"
    /\ inv_toggled = FALSE
    /\ inv_exit = 0

NextInvocations ==
    \/ InvLoad
    \/ InvExcept
    \/ InvRun
    \/ InvAgain

SpecInvocations == InitInvocations /\ [][NextInvocations]_vars

\* a cookie list on its way from the login script to load_session
InitCodec ==
    /\ RunIdle
    /\ FindIdle
    /\ ParserIdle
    /\ FcsIdle
    /\ InvIdle
    /\ codec_pc = "cookies"
    /\ cookies_list \in CookieLists
    /\ pickled = <<>>
    /\ cookies_b64 = <<>>
    /\ cookies_bytes = <<>>
    /\ unpickler = Unpickling(1, <<>>, <<>>)
    /\ cookies = <<>>
    /\ PairIdle
    /\ MonIdle

NextCodec ==
    \/ CodecDump
    \/ CodecEncode
    \/ CodecDecode
    \/ CodecUnpickle
    \/ CodecLoad

SpecCodec == InitCodec /\ [][NextCodec]_vars

\* the two scripts with the same cycle count, about to enter the toggle loop
InitPair ==
    /\ RunIdle
    /\ FindIdle
    /\ ParserIdle
    /\ FcsIdle
    /\ InvIdle
    /\ CodecIdle
    /\ MonIdle
    /\ \E n \in 0..MaxCycles :
        /\ gopi_run = ToggleStart(n)
        /\ ramki_run = ToggleStart(n)

NextPair ==
    \/ PairStep

SpecPair == InitPair /\ [][NextPair]_vars

\* one call of dual_wallet_monitor.main
InitMonitor ==
    /\ RunIdle
    /\ FindIdle
    /\ ParserIdle
    /\ FcsIdle
    /\ InvIdle
    /\ CodecIdle
    /\ PairIdle
    /\ mon_pc = "secrets"
    /\ gopi_check = NotChecked
    /\ ramki_check = NotChecked
    /\ mon_checked = <<>>
    /\ mon_sent = 0
    /\ mon_ret = 0

NextMonitor ==
    \/ MonSecretsMissing
    \/ MonSecretsOk
    \/ MonCheckGopi
    \/ MonCheckRamki
    \/ MonFormat
    \/ MonNotify

SpecMonitor == InitMonitor /\ [][NextMonitor]_vars

(***************************************************************************)
(* Properties of toggle_strategy                                           *)
(***************************************************************************)
\* an outcome after which the claims allow another attempt
Retryable(o) == o.exc \/ o.status_code >= 500

AllRaised == \A k \in 1..Len(posts) : posts[k].exc

\* C1: a POST answered with a status below 500 is the last POST of its call:
\* toggle_strategy has returned that very response, and every sleep of the
\* call came before it (one per earlier attempt); any POST that is followed
\* by another one ended in a transport exception or a 5xx response.
C1_TerminalBelow500 ==
    \A k \in 1..Len(posts) :
        /\ ~Retryable(posts[k]) =>
              /\ k = Len(posts)
              /\ ts = "ret"
              /\ response = ResponseOf(posts[k])
              /\ Len(sleeps) = k - 1
        /\ k < Len(posts) => Retryable(posts[k])

C1_Witness ==
    /\ ts = "ret"
    /\ Len(posts) = 2
    /\ posts[1] = Answered(503, FALSE)
    /\ posts[2] = Answered(404, FALSE)
    /\ response = Resp(404, FALSE)
    /\ sleeps = <<3>>

\* C2: the n-th backoff sleep of a call lasts backoff_seconds * n and follows
\* attempt n; there is one sleep for each retryable attempt that is not the
\* last allowed one and none after a terminal response; the script
\* [503, 503, 200] ends in 3 POSTs, the sleeps 3 then 6, and the 200 response.
C2_LinearBackoff ==
    /\ \A n \in 1..Len(sleeps) :
          /\ sleeps[n] = backoff_seconds * n
          /\ n <= Len(posts) /\ Retryable(posts[n]) /\ n < retries
    /\ Len(sleeps) =
          Cardinality({k \in 1..Len(posts) : Retryable(posts[k]) /\ k < retries})
    /\ Len(posts) <= retries
    /\ (ts = "ret" /\ posts = <<Answered(503, FALSE), Answered(503, FALSE),
                                Answered(200, TRUE)>>)
          => sleeps = <<3, 6>> /\ response = Resp(200, TRUE)

C2_Witness ==
    /\ ts = "ret"
    /\ posts = <<Answered(503, FALSE), Answered(503, FALSE), Answered(200, TRUE)>>
    /\ sleeps = <<3, 6>>

\* C3: when every attempt of a call raised a transport exception, the call
\* returns only after exactly `retries` POSTs, it returns None and raises
\* nothing, and main, taking that result, records the run as failed.
C3_AllAttemptsRaise ==
    /\ [](ts = "ret" /\ AllRaised =>
            Len(posts) = retries /\ response = None /\ ~escaped)
    /\ [][ts = "ret" /\ AllRaised =>
            had_failure' /\ Len(error_details') > Len(error_details)]_vars

C3_Witness ==
    /\ ts = "ret"
    /\ pc = "start"
    /\ Len(posts) = retries
    /\ AllRaised
    /\ response = None

(***************************************************************************)
(* Properties of the toggle run                                            *)
(***************************************************************************)
CallsAt(site) == {k \in 1..Len(calls) : calls[k].site = site}

\* the closing command has been called and main has taken its result
ClosingTaken ==
    /\ pc \in {"summary", "done"}
    /\ Len(calls) > 0
    /\ calls[Len(calls)].site = "final"

\* C4: once a Stop or Start step has failed (call number fail_at), the only
\* later toggle_strategy call is the closing 'Paused' one, it is made exactly
\* once before the run ends, and no exception has left main.
C4_FailFastThenClose ==
    fail_at > 0 =>
        /\ had_failure
        /\ ~escaped
        /\ calls[fail_at].site \in {"stop", "start"}
        /\ Len(calls) <= fail_at + 1
        /\ \A k \in 1..Len(calls) : k > fail_at =>
              calls[k] = [status |-> "Paused", site |-> "final"]
        /\ pc \in {"summary", "done"} => Len(calls) = fail_at + 1
        /\ pc \in {"final", "summary", "done"}

C4_Witness ==
    /\ pc = "done"
    /\ fail_at = 3
    /\ Len(calls) = 4
    /\ NUM_TOGGLES > 2
    /\ calls[4] = [status |-> "Paused", site |-> "final"]

\* C5: a run that passed session validation and has ended issued 'Paused' as
\* its last command; a run that ended with exit code 0 had 'Paused' as the
\* last command answered with status 200.
C5_EndsPaused ==
    pc = "done" =>
        /\ session = "Session" => issued = "Paused"
        /\ exit_code = 0 => acked = "Paused" /\ issued = "Paused"

C5_Witness ==
    /\ pc = "done"
    /\ exit_code = 0
    /\ NUM_TOGGLES >= 1
    /\ acked = "Paused"
    /\ \E k \in 1..Len(calls) : calls[k].status = "Start"

\* C6: a run of N cycles in which no step failed made 2N+1 calls: 'Paused'
\* at the odd places and 'Start' at the even places of the first 2N, then the
\* closing 'Paused'; and in any run the calls of the cycles alternate, Stop
\* first.
C6_CommandSequence ==
    /\ \A k \in 1..Len(calls) : calls[k].site # "final" =>
          calls[k] = IF k % 2 = 1 THEN [status |-> "Paused", site |-> "stop"]
                     ELSE [status |-> "Start", site |-> "start"]
    /\ (pc \in {"summary", "done"} /\ session = "Session" /\ ~had_failure) =>
          /\ Len(calls) = 2 * NUM_TOGGLES + 1
          /\ \A k \in 1..(2 * NUM_TOGGLES) :
                calls[k].status = IF k % 2 = 1 THEN "Paused" ELSE "Start"
          /\ calls[2 * NUM_TOGGLES + 1] = [status |-> "Paused", site |-> "final"]

C6_Witness ==
    /\ pc = "done"
    /\ ~had_failure
    /\ NUM_TOGGLES >= 2
    /\ Len(calls) = 2 * NUM_TOGGLES + 1

\* C7 as claimed: a step answered 200 with a body that does not decode as
\* JSON sets the run to failed and stops the cycles.
C7_UndecodableFails ==
    (pc \in {"stop", "start", "final"} /\ ts = "idle"
        /\ response = Resp(200, FALSE))
      => had_failure /\ pc = "final"

\* C7 as amended: a step passes exactly when its response has status 200;
\* main goes on to the next command with had_failure unset, and when the body
\* of that 200 response did not decode, the last detail recorded is the JSON
\* parse error of that step; a step that did not pass sets had_failure and
\* leads to the closing command.
C7_Status200Passes ==
    /\ (pc = "start" /\ ts = "idle") =>
          /\ ~had_failure
          /\ ~response.none /\ response.status_code = 200
          /\ ~response.json =>
                /\ Len(error_details) > 0
                /\ error_details[Len(error_details)].kind
                      = "STOP command JSON parse error"
    /\ (pc = "stop" /\ ts = "idle" /\ Len(calls) > 0) =>
          /\ ~had_failure
          /\ ~response.none /\ response.status_code = 200
          /\ ~response.json =>
                /\ Len(error_details) > 0
                /\ error_details[Len(error_details)].kind
                      = "START command JSON parse error"
    /\ (pc = "final" /\ ts = "idle" /\ Len(calls) > 0) =>
          (had_failure <=> fail_at = Len(calls))

C7_Witness ==
    /\ pc = "start"
    /\ ts = "idle"
    /\ response = Resp(200, FALSE)
    /\ ~had_failure
    /\ error_details = <<Detail("STOP command JSON parse error", 0, "")>>

\* C8: load_session yields a session only when its probe was answered 200;
\* after any other answer or an exception main ends with exit code 1 and no
\* toggle_strategy call; no call is ever made without a probe answered 200.
C8_ValidatedOrRejected ==
    /\ session = "Session" => probe = "200"
    /\ Len(calls) > 0 => session = "Session" /\ probe = "200"
    /\ probe \notin {"unsent", "200"} =>
          /\ session = "None"
          /\ pc = "done"
          /\ exit_code = 1
          /\ calls = <<>>
          /\ issued = ""

C8_Witness ==
    /\ probe = "401"
    /\ pc = "done"
    /\ exit_code = 1
    /\ calls = <<>>

\* C9: a run that has ended has exit code 0 or 1, and it has 0 exactly when
\* the session was validated, every Stop and Start step of all NUM_TOGGLES
\* cycles passed (was answered 200) and the closing command was answered 200.
C9_ExitCode ==
    pc = "done" =>
        /\ exit_code \in {0, 1}
        /\ exit_code = 0 <=>
              /\ session = "Session"
              /\ probe = "200"
              /\ ~escaped
              /\ fail_at = 0
              /\ completed = NUM_TOGGLES
              /\ Cardinality(CallsAt("stop")) = NUM_TOGGLES
              /\ Cardinality(CallsAt("start")) = NUM_TOGGLES
              /\ ClosingTaken
              /\ ~response.none /\ response.status_code = 200

C9_Witness ==
    /\ pc = "done"
    /\ exit_code = 1
    /\ session = "Session"
    /\ fail_at = 0
    /\ completed = NUM_TOGGLES
    /\ NUM_TOGGLES >= 1
    /\ response = Resp(404, FALSE)

\* C10: when the Start of cycle k failed (the detail recorded for it names
\* iteration k), the run ends failed with exactly k-1 completed cycles, after
\* 2k calls within the cycles and exactly one closing 'Paused' call.
StartFailures ==
    {n \in 1..Len(error_details) :
        error_details[n].kind \in {"START command failed",
                                   "START command exception"}}

C10_StartFailure ==
    \A n \in StartFailures :
        LET k == error_details[n].iter
        IN  /\ had_failure
            /\ fail_at = 2 * k
            /\ completed = k - 1
            /\ i = k - 1
            /\ Cardinality(StartFailures) = 1
            /\ pc = "done" =>
                  /\ exit_code = 1
                  /\ Len(calls) = 2 * k + 1
                  /\ CallsAt("final") = {2 * k + 1}
                  /\ calls[2 * k + 1].status = "Paused"

C10_Witness ==
    /\ pc = "done"
    /\ NUM_TOGGLES > 2
    /\ \E n \in StartFailures : error_details[n].iter = 2
    /\ completed = 1
    /\ Cardinality(CallsAt("final")) = 1

\* C11: with a cycle count of 0 a validated run makes exactly one
\* toggle_strategy call, the closing 'Paused' one; it sends no 'Start', takes
\* no inter-command delay and ends with zero completed cycles.
C11_ZeroCycles ==
    (session = "Session" /\ NUM_TOGGLES = 0) =>
        /\ Len(calls) <= 1
        /\ \A k \in 1..Len(calls) :
              calls[k] = [status |-> "Paused", site |-> "final"]
        /\ issued # "Start"
        /\ delays = 0
        /\ completed = 0
        /\ fail_at = 0
        /\ pc \in {"final", "summary", "done"}
        /\ pc \in {"summary", "done"} => Len(calls) = 1

C11_Witness ==
    /\ pc = "done"
    /\ session = "Session"
    /\ NUM_TOGGLES = 0
    /\ calls = <<[status |-> "Paused", site |-> "final"]>>
    /\ issued = "Paused"

IsPrefix(a, b) == Len(a) <= Len(b) /\ SubSeq(b, 1, Len(a)) = a

\* C12: error_details only grows at its end, and when the run has ended after
\* the closing command, the last message sent (the final report) carries the
\* whole of error_details, in a run that ended as success as in one that
\* ended as failure.
C12_FullListReported ==
    /\ [][IsPrefix(error_details, error_details')]_vars
    /\ [](pc = "done" /\ ClosingTaken =>
            sent[Len(sent)].details = error_details)

\* C20: a run that has ended has invoked send_telegram_message at least once.
C20_AlwaysNotifies == pc = "done" => Len(sent) >= 1

\* C18 as claimed: a run that has ended after the closing command, failed or
\* not, has called fetch_wallet_running_count exactly once.
C18_LookupAlways == (pc = "done" /\ ClosingTaken) => lookups = 1

\* C18 as amended: fetch_wallet_running_count is called at most once, and
\* only in a run without failure: a run that ended with exit code 0 called it
\* exactly once, after the closing command; a run that ended as failed never
\* called it and has no running count.
C18_LookupOnSuccessOnly ==
    /\ lookups <= 1
    /\ lookups = 1 => ~had_failure /\ ClosingTaken
    /\ pc = "done" => lookups = (IF exit_code = 0 THEN 1 ELSE 0)
    /\ (pc = "done" /\ had_failure) => running_count = "unset"

C18_Witness ==
    /\ pc = "done"
    /\ ClosingTaken
    /\ had_failure
    /\ lookups = 0
    /\ sent[Len(sent)].kind = "FAILED"

\* C19: fetch_wallet_running_count returns an integer or None and raises
\* nothing: once it has been called the run has ended with exit code 0 and
\* the success message carrying what it returned; a validated run without
\* failure ends with exit code 0 whatever the lookup returned.
C19_LookupBestEffort ==
    /\ running_count \in {"unset", "int", "None"}
    /\ lookups >= 1 =>
          /\ pc = "done"
          /\ exit_code = 0
          /\ ~escaped
          /\ running_count \in {"int", "None"}
          /\ sent[Len(sent)] = Msg("SUCCESS", <<>>, running_count)
    /\ (pc = "done" /\ session = "Session" /\ ~had_failure) => exit_code = 0

C19_Witness ==
    /\ pc = "done"
    /\ lookups = 1
    /\ running_count = "None"
    /\ exit_code = 0
    /\ ~had_failure


(***************************************************************************)
(* find_status                                                             *)
(***************************************************************************)
RECURSIVE Nodes(_)
\* every node of a document, at any depth
Nodes(doc) ==
    {doc} \cup UNION {Nodes(doc.items[j].v) : j \in 1..Len(doc.items)}

\* a mapping node with a recognized identifier key equal to the entity id
MatchesEntity(n, sid) ==
    /\ n.t = "dict"
    /\ \E key \in id_keys : Has(n, key) /\ PyStr(Get(n, key)) = ToString(sid)

\* ... that also has a recognized status key holding a non-empty string
HoldsLabel(n) ==
    \E s_key \in status_keys :
        /\ Has(n, s_key)
        /\ Get(n, s_key).t = "str"
        /\ Get(n, s_key).s # ""

\* the labels a node offers: the string forms of its status values and of
\* their inner entries
LabelsOf(n) ==
    UNION {{PyStr(Get(n, s_key))}
           \cup {PyStr(Get(n, s_key).items[j].v) :
                    j \in 1..Len(Get(n, s_key).items)} :
           s_key \in {k \in status_keys : Has(n, k)}}

ExampleDocument ==
    JDict(<<KV("data", JDict(<<KV("list",
        JList(<<Entity(JStr("42"), JStr("Running"))>>))>>))>>)

\* C16: whenever some mapping node of the document, at any depth, matches
\* the entity id (by string form) and holds a non-empty status value,
\* find_status returns a non-empty label taken from a node matching the
\* entity id; for {"data":{"list":[{"id":"42","status":"Running"}]}} and
\* entity id 42 it returns "Running".
C16_FindsNonEmptyLabel ==
    fs_done =>
        /\ (\E n \in Nodes(fs_doc) : MatchesEntity(n, strategy_id) /\ HoldsLabel(n))
            => /\ fs_result # ""
               /\ \E n \in Nodes(fs_doc) :
                    MatchesEntity(n, strategy_id) /\ fs_result \in LabelsOf(n)
        /\ (fs_doc = ExampleDocument /\ strategy_id = 42) => fs_result = "Running"

\* the case of C16 in which the code returns the empty label: the matching
\* node that holds the label lies below a matching node whose status is empty
C16_Witness ==
    /\ fs_done
    /\ strategy_id = 42
    /\ fs_doc = JDict(<<KV("id", JNum(42)), KV("status", JStr("")),
                        KV("items", JList(<<Entity(JNum(42), JStr("Running"))>>))>>)
    /\ fs_result = ""

\* what the code does guarantee: a non-empty result is a label of a node
\* matching the entity id, and the example of C16 yields "Running"
C16_ResultFromMatchingNode ==
    fs_done =>
        /\ fs_result # "" =>
            \E n \in Nodes(fs_doc) :
                MatchesEntity(n, strategy_id) /\ fs_result \in LabelsOf(n)
        /\ (fs_doc = ExampleDocument /\ strategy_id = 42) => fs_result = "Running"

(***************************************************************************)
(* StatusHTMLParser                                                        *)
(***************************************************************************)
\* <div id="deployment-42"> Status <span> Paused
StatusThenSpan ==
    <<StartTag("div", "deployment-42"), Data("Status"), StartTag("span", ""),
      Data(" Paused ")>>

\* the call just made captured the label x: it is a text call whose
\* stripped text is x, made after a span was opened, which was opened
\* after a text containing "Status"
CapturedFromSpan(log, x) ==
    /\ log[Len(log)].kind = "data"
    /\ Strip(log[Len(log)].data) = x
    /\ x # ""
    /\ \E a \in 1..Len(log), b \in 1..Len(log) :
        /\ a < b
        /\ b < Len(log)
        /\ log[a].kind = "data" /\ HasStatusWord(Strip(log[a].data))
        /\ log[b] = StartTag("span", "")

\* C17: markup with a div whose id contains the entity id and, inside it,
\* the text "Status" followed by <span>Paused</span> yields the label
\* "Paused"; the label only ever goes from empty to the text captured from
\* a span opened after the "Status" text, and a non-empty label is never
\* changed by later input.
C17_FirstCaptureKept ==
    /\ []((Len(events) >= Len(StatusThenSpan)
            /\ SubSeq(events, 1, Len(StatusThenSpan)) = StatusThenSpan)
          => parser_status = "Paused")
    /\ [][parser_status' # parser_status
            => parser_status = "" /\ CapturedFromSpan(events', parser_status')]_vars

\* the markup of C17 was fed and the label is Paused
C17_Witness ==
    /\ events = StatusThenSpan \o <<EndTag("span")>>
    /\ parser_status = "Paused"

(***************************************************************************)
(* fetch_current_status                                                    *)
(***************************************************************************)
\* the probe requests among the requests sent
ProbesSent == SelectSeq(fcs_requests, LAMBDA r : r # "dashboard")

FcsLoopOver == fcs_pc \in {"after", "returned", "raised"}

\* a probe that threw, answered non-200 or answered an undecodable body
Skipped(o) == o.kind \in {"exc", "non200", "badjson"}

\* probes go out in the fixed order, each at most once, and a skipped
\* probe that is not the last is followed by the next one
ProbeOrderKept ==
    /\ IsPrefix(ProbesSent, probes)
    /\ Len(fcs_outcomes) = Len(ProbesSent)
    /\ \A k \in 1..Len(fcs_outcomes) :
        (Skipped(fcs_outcomes[k]) /\ k < Len(probes) /\ FcsLoopOver)
            => Len(ProbesSent) > k

\* probe 1 non-200, probe 2 answers 200 with JSON containing the entity:
\* the result is probe 2's label and probe 3 is never sent
SecondProbeWins ==
    (/\ fcs_pc = "returned"
     /\ Len(fcs_outcomes) >= 2
     /\ fcs_outcomes[1] = ProbeNon200
     /\ fcs_outcomes[2] = ProbeJson(Entity(JNum(42), JStr("Running"))))
        => /\ fcs_label = "Running"
           /\ fcs_requests = SubSeq(probes, 1, 2)

\* C13 as stated: the probes are issued in the fixed order, each at most
\* once, a probe that throws, answers non-200 or answers an undecodable
\* body is skipped, and no probe is sent after a probe answered 200 with a
\* body that decodes as JSON.
C13_StopsAtDecodableJson ==
    /\ ProbeOrderKept
    /\ SecondProbeWins
    /\ \A k \in 1..Len(fcs_outcomes) :
        fcs_outcomes[k].kind = "json" => Len(ProbesSent) = k

\* C13: the probes are issued in the fixed order, each at most once; a
\* probe that throws, answers non-200, answers an undecodable body or
\* answers an empty JSON value is followed by the next probe; no probe is
\* sent after a probe answered 200 with a non-empty JSON value; probe 1
\* non-200 and probe 2 answering JSON with the entity gives probe 2's
\* label without probe 3.
C13_StopsAtNonEmptyJson ==
    /\ ProbeOrderKept
    /\ SecondProbeWins
    /\ \A k \in 1..Len(fcs_outcomes) :
        /\ (fcs_outcomes[k].kind = "json" /\ DocTruthy(fcs_outcomes[k].doc))
            => Len(ProbesSent) = k
        /\ (/\ fcs_outcomes[k].kind = "json"
            /\ ~DocTruthy(fcs_outcomes[k].doc)
            /\ k < Len(probes)
            /\ FcsLoopOver)
            => Len(ProbesSent) > k

\* probe 1 answered non-200, probe 2 answered with the entity, the call
\* returned
C13_Witness ==
    /\ fcs_pc = "returned"
    /\ fcs_outcomes = <<ProbeNon200, ProbeJson(Entity(JNum(42), JStr("Running")))>>
    /\ fcs_label = "Running"

\* C14: fetch_current_status never raises to its caller, whatever the
\* three probes and the dashboard-markup request do.
C14_NeverRaises == fcs_pc # "raised"

\* all three probes failed and the dashboard request threw
C14_Witness ==
    /\ fcs_pc = "raised"
    /\ fcs_outcomes = <<ProbeRaised, ProbeNon200, ProbeBadJson>>
    /\ fcs_requests = probes \o <<"dashboard">>

\* a probe answered 200 with a non-empty JSON value
Usable(o) == o.kind = "json" /\ DocTruthy(o.doc)

\* C15: the dashboard markup is requested at most once, and only after all
\* three probes were sent and none gave usable JSON; when a probe gave
\* usable JSON in which no node matches the entity id, the call returns
\* the empty label with no later probe and no markup request.
C15_FallbackLast ==
    /\ Len(SelectSeq(fcs_requests, LAMBDA r : r = "dashboard")) <= 1
    /\ (\E j \in 1..Len(fcs_requests) : fcs_requests[j] = "dashboard")
        => /\ fcs_requests = probes \o <<"dashboard">>
           /\ \A k \in 1..Len(fcs_outcomes) : ~Usable(fcs_outcomes[k])
    /\ \A k \in 1..Len(fcs_outcomes) :
        (/\ Usable(fcs_outcomes[k])
         /\ \A n \in Nodes(fcs_outcomes[k].doc) : ~MatchesEntity(n, strategy_id))
            => /\ fcs_requests = SubSeq(probes, 1, k)
               /\ fcs_pc # "raised"
               /\ fcs_pc = "returned" => fcs_label = ""

\* the second probe gave usable JSON about another strategy only, and the
\* call returned
C15_Witness ==
    /\ fcs_pc = "returned"
    /\ Len(fcs_outcomes) = 2
    /\ Usable(fcs_outcomes[2])
    /\ \A n \in Nodes(fcs_outcomes[2].doc) : ~MatchesEntity(n, strategy_id)
    /\ fcs_label = ""

(***************************************************************************)
(* The notifier                                                            *)
(***************************************************************************)
\* what the run does and how it exits, stated without the notifier: the
\* commands follow the cycle order, a failed step is followed by the closing
\* command only, and the exit code is 0 exactly for a validated run without
\* failure
RunAsDelivered ==
    /\ \A k \in 1..Len(calls) : calls[k].site # "final" =>
          calls[k] = IF k % 2 = 1 THEN [status |-> "Paused", site |-> "stop"]
                     ELSE [status |-> "Start", site |-> "start"]
    /\ fail_at > 0 => Len(calls) <= fail_at + 1
    /\ had_failure = (\E n \in 1..Len(error_details) :
                        error_details[n].kind \notin
                            {"STOP command JSON parse error",
                             "START command JSON parse error"})
    /\ pc = "done" =>
        /\ exit_code = IF session = "Session" /\ ~had_failure /\ ~escaped
                       THEN 0 ELSE 1
        /\ (session = "Session" /\ ~had_failure)
            => Len(calls) = 2 * NUM_TOGGLES + 1

\* C21: send_telegram_message never raises; without credentials, on a
\* non-200 answer and when the HTTP call throws it returns False; and the
\* commands, the recorded failures and the exit code of the run are what
\* they are when the notification is delivered.
C21_NotifierNeverRaises ==
    /\ notify.ret \in {"unsent", "True", "False"}
    /\ notify.outcome \in {"nocreds", "exc", "non200"} => notify.ret = "False"
    /\ Len(sent) > 0 <=> notify # NoNotify
    /\ RunAsDelivered

\* a run whose last notification met an exception in the HTTP call, after
\* an earlier notification in the middle of the cycles, and which still
\* went through all its cycles and exited 0
C21_Witness ==
    /\ pc = "done"
    /\ exit_code = 0
    /\ NUM_TOGGLES >= 2
    /\ Len(sent) >= 2
    /\ notify = [outcome |-> "exc", ret |-> "False"]

(***************************************************************************)
(* load_session across invocations                                         *)
(***************************************************************************)
Undecodable(blob) == blob \in {"badb64", "badpickle"}

\* C22: when the auth blob of an invocation is invalid base64 or does not
\* hold a serialized cookie list, load_session returns None without
\* raising, no validation probe and no toggle command is sent, and the
\* invocation exits with code 1.
C22_UndecodableBlobRejected ==
    (Undecodable(inv_blob) /\ inv_pc # "load") =>
        /\ inv_session = "None"
        /\ inv_probe = "unsent"
        /\ ~inv_toggled
        /\ inv_pc # "run"
        /\ inv_pc = "exited" => inv_exit = 1

\* the Gopi script, given an undecodable blob while a cookie file of an
\* earlier invocation is on disk, validated a session and sent commands
C22_Witness ==
    /\ inv_variant = "Gopi"
    /\ inv_no = 2
    /\ inv_blob = "badb64"
    /\ inv_session = "Session"
    /\ inv_probe = "200"
    /\ inv_toggled

\* the blob is valid base64 of bytes that are no cookie list: the
\* exception of pickle leaves load_session
C22_PickleErrorEscapes ==
    /\ inv_variant = "Ramki"
    /\ inv_blob = "badpickle"
    /\ inv_session = "raise"
    /\ inv_pc = "raised"

\* C23: load_session leaves external storage as it is: no step of it
\* creates or modifies the cookie file.
C23_StorageUntouched == [][inv_pc = "load" => inv_file' = inv_file]_vars

\* load_session of the first invocation created the cookie file
C23_Witness ==
    /\ inv_variant = "Gopi"
    /\ inv_no = 1
    /\ inv_pc # "load"
    /\ inv_file # "absent"
    /\ inv_file_from = 1

\* C24: the cookies of an invocation's session come from the blob supplied
\* to that invocation, whatever earlier invocations left behind.
C24_OwnBlobInstalled == inv_session = "Session" => inv_source = inv_no

\* the second invocation was given a good blob of its own and runs with
\* the cookies of the first invocation's blob
C24_Witness ==
    /\ inv_variant = "Gopi"
    /\ inv_no = 2
    /\ inv_blob = "good"
    /\ inv_session = "Session"
    /\ inv_source = 1

(***************************************************************************)
(* The cookie blob                                                         *)
(***************************************************************************)
\* the {name, value, domain} triples of a list of cookie records
Triples(list) ==
    [k \in 1..Len(list) |->
        [name |-> list[k].name, value |-> list[k].value,
         domain |-> list[k].domain]]

\* C25: pickling a list of N cookie records and base64-encoding the bytes,
\* then base64-decoding and unpickling, yields N records in the same order
\* with the same name, value and domain, without an error, for N among
\* 0, 1 and 50.
C25_RoundTrip ==
    /\ codec_pc # "raised"
    /\ codec_pc \in {"restored", "loaded"} => cookies_bytes = pickled
    /\ codec_pc = "loaded" => cookies = Triples(cookies_list)

\* fifty cookies, some with the default domain, went through
C25_Witness ==
    /\ codec_pc = "loaded"
    /\ Len(cookies_list) = MaxCookies
    /\ Len(cookies) = MaxCookies
    /\ \E k \in 1..MaxCookies : cookies[k].domain = DefaultDomain
    /\ \E k \in 1..MaxCookies : cookies[k].domain # DefaultDomain

(***************************************************************************)
(* The entry point                                                         *)
(***************************************************************************)
\* C26: an exception that escapes main() is caught by the entry point,
\* reported through the notifier and followed by exit code 1: while the
\* exception is in flight the handler is what runs next, and a run that
\* ended after an escape ended with the handler's report as its last
\* notification and a non-zero exit code; the handler's report is sent for
\* no other reason
C26_EscapeReported ==
    /\ pc = "raised" => (escaped /\ ENABLED TopLevelExcept)
    /\ escaped => pc \in {"raised", "done"}
    /\ (pc = "done" /\ escaped) =>
          /\ exit_code = 1
          /\ Len(sent) > 0
          /\ sent[Len(sent)].kind = "CRITICAL ERROR"
          /\ notify.ret \in {"True", "False"}
    /\ \A k \in 1..Len(sent) : sent[k].kind = "CRITICAL ERROR" =>
          (escaped /\ pc = "done" /\ k = Len(sent))

\* a run whose configuration was read, whose load_session let the
\* unpickling error out, and which the handler reported (the notification
\* itself meeting an exception) and ended with exit code 1
C26_Witness ==
    /\ pc = "done"
    /\ escaped
    /\ NUM_TOGGLES >= 1
    /\ exit_code = 1
    /\ sent[Len(sent)].kind = "CRITICAL ERROR"
    /\ notify = [outcome |-> "exc", ret |-> "False"]

(***************************************************************************)
(* The delays between commands                                             *)
(***************************************************************************)
\* the delays taken so far, from where the run stands: two per finished
\* cycle inside the loop, one more once the Stop of the current cycle
\* passed; after the loop, one per command before the failed one, or, when
\* every step passed, one per command but the last Start
DelaysDue ==
    IF pc = "stop" THEN 2 * i
    ELSE IF pc = "start" THEN 2 * i + 1
    ELSE IF fail_at > 0 THEN fail_at - 1
    ELSE IF completed = 0 THEN 0
    ELSE 2 * completed - 1

\* C27: a delay is taken after every passed Stop, before the Start of the
\* same cycle, and after every passed Start but that of the last cycle;
\* none is taken after a failed step, nor between the last Start and the
\* closing Paused command; a run of N >= 1 cycles whose steps all passed
\* takes exactly 2N-1 delays
C27_Delays ==
    /\ [](delays = DelaysDue)
    /\ [](pc \in {"final", "summary", "done"} /\ fail_at = 0 /\ completed > 0
            => completed = NUM_TOGGLES /\ delays = 2 * NUM_TOGGLES - 1)
    /\ [][delays' =
            IF pc = "stop" /\ pc' = "start" THEN delays + 1
            ELSE IF pc = "start" /\ pc' = "stop" THEN delays + 1
            ELSE delays]_vars
    /\ [][pc = "start" /\ pc' = "stop" => i' < NUM_TOGGLES /\ i' = i + 1]_vars
    /\ [][pc = "start" /\ pc' = "final" /\ fail_at' = 0
            => i = NUM_TOGGLES - 1 /\ delays' = delays]_vars

\* a run of MaxCycles cycles whose steps all passed, ended with exit code 0
\* after 2 * MaxCycles - 1 delays
C27_Witness ==
    /\ pc = "done"
    /\ exit_code = 0
    /\ NUM_TOGGLES = MaxCycles
    /\ completed = MaxCycles
    /\ delays = 2 * MaxCycles - 1

(***************************************************************************)
(* StatusHTMLParser: where the fragment ends                               *)
(***************************************************************************)
\* an element that has a start tag and no end tag
Void(tag) == tag = "br"

IsTargetDiv(ev, sid) ==
    ev.kind = "start" /\ ev.tag = "div" /\ ev.id # "" /\ IdContains(ev.id, sid)

RECURSIVE Nesting(_, _)
\* the elements left open by a tag stream, outermost first, each marked
\* when it is the container of the target fragment; ok is FALSE for a
\* stream with an end tag that does not close the innermost open element
Nesting(log, sid) ==
    IF Len(log) = 0 THEN [ok |-> TRUE, open |-> <<>>]
    ELSE LET before == Nesting(SubSeq(log, 1, Len(log) - 1), sid)
             ev == log[Len(log)]
             inside == \E k \in 1..Len(before.open) : before.open[k].target
         IN  IF ~before.ok THEN before
             ELSE IF ev.kind = "start" /\ ~Void(ev.tag)
             THEN [before EXCEPT !.open =
                        Append(@, [tag |-> ev.tag,
                                   target |-> IsTargetDiv(ev, sid) /\ ~inside])]
             ELSE IF ev.kind = "end"
             THEN IF Len(before.open) > 0
                        /\ before.open[Len(before.open)].tag = ev.tag
                  THEN [before EXCEPT !.open = SubSeq(@, 1, Len(@) - 1)]
                  ELSE [before EXCEPT !.ok = FALSE]
             ELSE before

WellNested(log, sid) == Nesting(log, sid).ok

InsideFragment(log, sid) ==
    \E k \in 1..Len(Nesting(log, sid).open) : Nesting(log, sid).open[k].target

\* the handler call that set the label
CaptureAt(log, sid) ==
    CHOOSE j \in 1..Len(log) :
        /\ Feed(NewParser, SubSeq(log, 1, j), 1, sid).status # ""
        /\ Feed(NewParser, SubSeq(log, 1, j - 1), 1, sid).status = ""

\* C28: for every well nested tag stream, void elements included, the
\* parser is inside the target fragment exactly from the container's
\* opening div to the end tag that closes it, and the label is never taken
\* from a text that follows the container
C28_FragmentEndsAtClosingDiv ==
    WellNested(events, strategy_id) =>
        /\ in_target = InsideFragment(events, strategy_id)
        /\ parser_status # "" =>
              InsideFragment(SubSeq(events, 1, CaptureAt(events, strategy_id) - 1),
                             strategy_id)

\* the container holds a <br> and is closed; the "Status" text, the span
\* and the text that follow it give the label
C28_Witness ==
    /\ events = <<StartTag("div", "deployment-42"), StartTag("br", ""),
                  EndTag("div"), Data("Status"), StartTag("span", ""),
                  Data("Active")>>
    /\ WellNested(events, strategy_id)
    /\ ~InsideFragment(events, strategy_id)
    /\ in_target
    /\ parser_status = "Active"

(***************************************************************************)
(* StatusHTMLParser: which span gives the label                            *)
(***************************************************************************)
\* the parser is inside a target fragment after the first k handler calls
InTargetAfter(log, k, sid) ==
    Feed(NewParser, SubSeq(log, 1, k), 1, sid).in_target

\* C29: a label is captured only from a span that lies inside a target
\* fragment and was opened after a text containing "Status" was seen inside
\* that same fragment: between that text and the captured text the parser
\* never left the fragment, so that a "Status" text of a fragment that has
\* ended enables no capture in a later one
C29_StatusOfSameFragment ==
    parser_status # "" =>
        LET j == CaptureAt(events, strategy_id)
        IN  \E a \in 1..j, b \in 1..j :
                /\ a < b
                /\ b < j
                /\ events[a].kind = "data"
                /\ HasStatusWord(Strip(events[a].data))
                /\ events[b] = StartTag("span", "")
                /\ \A k \in a..j : InTargetAfter(events, k, strategy_id)

\* a first fragment holding only the "Status" text, closed; a second one
\* whose span gives the label
C29_Witness ==
    /\ events = <<StartTag("div", "deployment-42"), Data("Status"),
                  EndTag("div"), StartTag("div", "deployment-42"),
                  StartTag("span", ""), Data("Active")>>
    /\ ~InTargetAfter(events, 3, strategy_id)
    /\ parser_status = "Active"

(***************************************************************************)
(* find_status: the status value                                           *)
(***************************************************************************)
\* the entry of a mapping under the first of status, label, name, text
Unwrapped(value) ==
    IF Has(value, "status") THEN Get(value, "status")
    ELSE IF Has(value, "label") THEN Get(value, "label")
    ELSE IF Has(value, "name") THEN Get(value, "name")
    ELSE Get(value, "text")

\* a status value the rule speaks of: not a mapping, or a mapping with one
\* of the four keys
Unwrappable(value) ==
    value.t # "dict" \/ \E k \in {"status", "label", "name", "text"} : Has(value, k)

LabelOf(value) ==
    IF value.t = "dict" THEN PyStr(Unwrapped(value)) ELSE PyStr(value)

\* the node of the document that find_status reaches first among those
\* matching the entity id, for a document that is such a node or wraps one
\* as {"data": {"list": [node]}}
ReachedNode(doc) ==
    IF doc.t = "dict" /\ Has(doc, "data")
    THEN Get(Get(doc, "data"), "list").items[1].v
    ELSE doc

\* C30: when the status value of the node matching the entity id is a
\* mapping, find_status returns the string form of the entry under the
\* first of status, label, name, text that the mapping has; when it is not
\* a mapping, the string form of the value itself
C30_StatusValueUnwrapped ==
    (/\ fs_done
     /\ MatchesEntity(ReachedNode(fs_doc), strategy_id)
     /\ \E s_key \in status_keys : Has(ReachedNode(fs_doc), s_key))
        => \E s_key \in status_keys :
                /\ Has(ReachedNode(fs_doc), s_key)
                /\ Unwrappable(Get(ReachedNode(fs_doc), s_key))
                        => fs_result = LabelOf(Get(ReachedNode(fs_doc), s_key))

\* the status value is a mapping that has label before status: the entry
\* under status is returned
C30_Witness ==
    /\ fs_done
    /\ strategy_id = 42
    /\ fs_doc = Entity(JStr("42"),
                       JDict(<<KV("label", JStr("Paused")),
                               KV("status", JStr("Active"))>>))
    /\ fs_result = "Active"

(***************************************************************************)
(* The closing command                                                     *)
(***************************************************************************)
\* every Stop and Start step of every cycle passed
AllStepsPassed == fail_at = 0 /\ completed = NUM_TOGGLES

\* C31: when every Stop and Start step passed and the closing Paused
\* command returned no response or a response other than 200, the run is
\* marked failed with a "Final STOP command failed" detail, and it ends
\* with the failure report carrying that detail, without the running-count
\* lookup, without a success message, with exit code 1
C31_ClosingFailureFailsRun ==
    (ClosingTaken /\ AllStepsPassed /\ (response.none \/ response.status_code # 200))
        => /\ had_failure
           /\ \E n \in 1..Len(error_details) :
                 error_details[n].kind = "Final STOP command failed"
           /\ lookups = 0
           /\ running_count = "unset"
           /\ \A k \in 1..Len(sent) : sent[k].kind # "SUCCESS"
           /\ pc = "done" =>
                 /\ exit_code = 1
                 /\ sent[Len(sent)] = Msg("FAILED", error_details, "")

\* two cycles passed, the closing command was answered 503 on every
\* attempt, and the run ended
C31_Witness ==
    /\ pc = "done"
    /\ NUM_TOGGLES = 2
    /\ AllStepsPassed
    /\ ClosingTaken
    /\ response = Resp(503, FALSE)
    /\ exit_code = 1
    /\ error_details[1].kind = "Final STOP command failed"

(***************************************************************************)
(* toggle_strategy: the attempts used up                                   *)
(***************************************************************************)
\* the call has returned after `retries` POSTs none of which was answered
\* with a status below 500
Exhausted ==
    /\ ts = "ret"
    /\ Len(posts) = retries
    /\ \A k \in 1..retries : posts[k].exc \/ posts[k].status_code >= 500

\* C32: a toggle_strategy call that used up its attempts without a
\* response below 500 returns what the last attempt gave: its 5xx response
\* if it was answered, None if it raised, also when an earlier attempt had
\* been answered 5xx
C32_LastAttemptDecides ==
    Exhausted =>
        response = IF posts[retries].exc THEN None
                   ELSE Resp(posts[retries].status_code, posts[retries].json)

\* answered 503, then 500, then a transport exception: None is returned
C32_Witness ==
    /\ Exhausted
    /\ posts = <<Answered(503, FALSE), Answered(500, FALSE), Raised>>
    /\ last_response = Resp(500, FALSE)
    /\ response = None

(***************************************************************************)
(* The status text of a failure detail                                     *)
(***************************************************************************)
FailureKinds ==
    {"STOP command failed", "START command failed", "Final STOP command failed"}

\* C33: the detail line of a failed Stop, Start or closing step records the
\* numeric status code of the response toggle_strategy returned, and the
\* text "no response" only when toggle_strategy returned None
C33_StatusCodeRecorded ==
    [][(/\ pc \in {"stop", "start", "final"}
        /\ ts = "ret"
        /\ Len(error_details') > Len(error_details)
        /\ error_details'[Len(error_details) + 1].kind \in FailureKinds)
            => error_details'[Len(error_details) + 1].code =
                    IF response.none THEN "no response"
                    ELSE ToString(response.status_code)]_vars

\* the Stop of the first cycle was answered 404: the detail line says
\* "no response" and is followed by the line holding the response text
C33_Witness ==
    /\ pc = "final"
    /\ ts = "idle"
    /\ response = Resp(404, FALSE)
    /\ Len(error_details) = 2
    /\ error_details[1] = Detail("STOP command failed", 1, "no response")
    /\ error_details[2].kind = "Response"

(***************************************************************************)
(* find_status: the iteration order of status_keys                         *)
(***************************************************************************)
\* C34: for the same document and the same entity id, the label returned
\* does not depend on the order in which the recognized status keys are
\* visited: the label of this execution is the label of an execution under
\* any other iteration order, also when the matching node holds several
\* recognized status keys with different values
C34_SameLabelInAnyOrder ==
    fs_done =>
        \A order \in StatusKeyOrders :
            fs_result = find_status(fs_doc, strategy_id, order)

\* the matching node holds "state": "Running" and "status": "Paused" as a
\* mapping's label; this execution returned "Running", the execution under
\* the other iteration order returns "Paused"
C34_Witness ==
    /\ fs_done
    /\ strategy_id = 42
    /\ fs_doc = JDict(<<KV("strategy_id", JNum(42)),
                        KV("state", JStr("Running")),
                        KV("status", JDict(<<KV("label", JStr("Paused"))>>))>>)
    /\ fs_result = "Running"
    /\ \E order \in StatusKeyOrders :
            find_status(fs_doc, strategy_id, order) = "Paused"

(***************************************************************************)
(* The two scripts in the toggle phase                                     *)
(***************************************************************************)
\* what a run shows in the toggle phase: the commands issued, the backoff
\* and delay sleeps since the last command, the number of failure details,
\* whether it failed, whether it has ended and its exit code.  The two runs
\* step together, so sleeps that agree after every step agree as sequences
Observed(st) ==
    [calls |-> st.calls, sleeps |-> st.sleeps, details |-> st.details,
     had_failure |-> st.had_failure, ended |-> st.pc = "done",
     exit_code |-> st.exit_code]

C36_MonitorChecksBoth ==
    /\ mon_pc # "raised"
    /\ mon_pc \in {"format", "notify", "returned"}
            => mon_checked = <<"Gopi", "Ramki">>
    /\ mon_pc = "returned" =>
            /\ mon_sent = 1
            /\ mon_ret = 0 <=> (gopi_check.valid /\ ramki_check.valid)
    /\ mon_pc # "returned" => mon_sent = 0
    /\ \A c \in {gopi_check, ramki_check} :
            /\ c.valid => c.probe \in {"200 no data", "200 balances",
                                       "200 balances null"}
            /\ (c # NotChecked /\ ~c.valid) =>
                    c.info \in {"error: not found", "error: base64",
                                "error: cookie load", "error: timeout",
                                "error: request", "error: expired",
                                "error: api", "error: json"}

\* the Gopi probe answered 200 with {"data": {"balances": null}}: the
\* wallet is valid with info None, both wallets were checked, and
\* format_telegram_message raised before the notifier was called
C36_Witness ==
    /\ mon_pc = "raised"
    /\ gopi_check = Checked(TRUE, "None", "good", "200 balances null")
    /\ ramki_check.valid
    /\ ramki_check.info = "dict"
    /\ mon_checked = <<"Gopi", "Ramki">>
    /\ mon_sent = 0

\* what the monitor does guarantee: both wallets are checked in order, the
\* notifier is called at most once, a returned main called it once and
\* returned 0 exactly when both wallets validated, and the results of
\* check_wallet_cookie are as C36 says
C36_ChecksBothWhenFormatted ==
    /\ mon_pc \in {"format", "notify", "returned", "raised"}
            => mon_checked = <<"Gopi", "Ramki">>
    /\ mon_pc = "returned" =>
            /\ mon_sent = 1
            /\ mon_ret = 0 <=> (gopi_check.valid /\ ramki_check.valid)
    /\ mon_pc # "returned" => mon_sent = 0
    /\ \A c \in {gopi_check, ramki_check} :
            c.valid => c.probe \in {"200 no data", "200 balances",
                                    "200 balances null"}

(***************************************************************************)
(* Termination                                                             *)
(***************************************************************************)
\* C37: every run ends, whatever the requests meet: a toggle_strategy call
\* sends at most `retries` POSTs, a run of N cycles makes at most 2N+1
\* toggle_strategy calls, and the process reaches its exit with code 0 or 1
C37_RunTerminates ==
    /\ [](Len(posts) <= retries)
    /\ [](Len(calls) <= 2 * NUM_TOGGLES + 1)
    /\ [](pc = "done" => exit_code \in {0, 1})
    /\ <>(pc = "done")
    /\ [][pc = "done" => pc' = "done"]_vars

\* a run of MaxCycles cycles that made all its 2 * MaxCycles + 1 calls, the
\* last of them with all its attempts, and ended
C37_Witness ==
    /\ pc = "done"
    /\ NUM_TOGGLES = MaxCycles
    /\ Len(calls) = 2 * MaxCycles + 1
    /\ response = Resp(503, FALSE)

C39_ParserFlagsConsistent ==
    /\ in_target <=> target_depth >= 1
    /\ target_depth >= 0
    /\ capture_status => awaiting_status_span

\* the target block was entered, a span opened after the label, and the
\* block left by end tags that are not the span's: the parser is outside
\* the block at depth zero, still capturing
C39_Witness ==
    /\ Len(events) >= 5
    /\ \E j \in 1..Len(events) : events[j] = StartTag("div", "deployment-42")
    /\ events[Len(events)] = EndTag("div")
    /\ ~in_target
    /\ target_depth = 0
    /\ capture_status
    /\ awaiting_status_span
====
